---- MODULE Spec2Model ----
(***************************************************************************)
(* A model of the two-deck mixing engine of packages/audio                 *)
(* (src/packages/audio/src/audio_engine.rs): the deck transport (position, *)
(* loops, time-stretch reservoir), the auto-crossfade, the processing      *)
(* thread and its sample queue, the channel router and the level meter.    *)
(*                                                                         *)
(* Frame counts are scaled: FEED_FRAMES stands for the 1024-frame feed of  *)
(* TimeStretcher::process and FRAMES_PER_CHUNK keeps the code's ratio of   *)
(* two feeds per chunk.  Crossfader positions are fixed-point numbers in   *)
(* units of 1/PosUnit.                                                     *)
(***************************************************************************)
EXTENDS Integers, Sequences, FiniteSets, TLC

VARIABLES
  deck,        \* EngineState.deck_a / deck_b : [1..2 -> DeckState]
  crossfade,   \* EngineState.crossfade : CrossfadeState
  last,        \* history: what acted last on the decks and the crossfader: a
               \* "chunk", "load", "play", "stop", "seek", "close", or another
               \* operation ("op")
  focus,       \* the deck the host operates on in the deck-transport behaviours
  channel_config,  \* EngineState.channel_config : ChannelConfig
  output_queue,    \* EngineState.output_queue : the sample queue
  running,         \* EngineState.running
  pt,              \* the processing thread: its place in the loop, its locals, and
                   \* (history) the chunks it generated since close returned
  host,            \* the host thread: its place inside configure_device / close
  stream,          \* AudioEngine.stream : the output stream, or NoStream
  microphone,      \* EngineState.microphone : MicrophoneState
  levels,          \* EngineState.levels : LevelMeterState
  now,             \* Instant::now(), in ticks
  output,          \* the chunk process_audio_chunk returned in the step that led
                   \* here, with the deck buffers before and after the equaliser
                   \* and the mix it was routed from; NoOutput when that step
                   \* processed no chunk
  data,            \* the slice the output callback filled in the step that led
                   \* here, NoData when that step was no output callback
  update_reason,   \* EngineState.update_reason
  master_tempo,    \* EngineState.master_tempo, in BPM
  bd,              \* a BeatDetector and the call of detect it is in
  ts,              \* a TimeStretcher and the call of process it is in
  dev,             \* AudioEngine.input_stream, the device streams that are alive
                   \* and the call of configure_device the host is in
  lk,              \* the engine mutex: its holder, and each thread's place
                   \* between its critical sections
  rec,             \* a RecordingThread and its recording thread
  dispatched       \* history: a state update carrying the pending update_reason
                   \* was handed to the host callback since the reason was set

\* the processing thread, the queue and the device
engineVars == <<channel_config, output_queue, running, pt, host, stream>>
\* the microphone and the level meter
audioVars == <<microphone, levels>>
\* what the deck and crossfader operations leave alone
nonCtl == <<focus, engineVars, audioVars, now>>
vars == <<deck, crossfade, last, focus, channel_config, output_queue, running,
          pt, host, stream, microphone, levels, now, output, data,
          update_reason, master_tempo, dispatched, bd, ts, dev, lk, rec>>
\* everything but the beat detector and the time stretcher on its own
engineState == <<deck, crossfade, last, focus, channel_config, output_queue, running,
                 pt, host, stream, microphone, levels, now, output, data,
                 update_reason, master_tempo, dispatched>>
\* the pending reason of the next state update
notifyVars == <<update_reason, dispatched>>

----------------------------------------------------------------------------
(* Bounds of the model *)

\* scaled size of one stretcher feed (1024 frames in the code)
FEED_FRAMES == 1
\* longest track, in frames, that load_track is given
MaxTrackFrames == 4
\* resolution of the crossfader position: 1.0 is PosUnit
PosUnit == 2
\* scaled sample_rate / 10: the frames of a tenth of a second
TenthSecondFrames == 2
\* resolution of a sample and of a gain: 1.0 is SampleUnit
SampleUnit == 2
\* the clock stops after MaxNow ticks
MaxNow == 6
\* the length of a clock tick, in milliseconds
TickMillis == 500

----------------------------------------------------------------------------
(* Helpers *)

Min(a, b) == IF a < b THEN a ELSE b
Max(a, b) == IF a > b THEN a ELSE b
Clamp(x, lo, hi) == Max(lo, Min(x, hi))
\* usize::saturating_sub
SatSub(a, b) == IF a > b THEN a - b ELSE 0
\* `x as usize` of a float: truncation toward zero, negatives saturate to 0
AsUsize(num, den) == IF num <= 0 THEN 0 ELSE num \div den

\* const FRAMES_PER_CHUNK (two feeds per chunk, as 2048 / 1024)
FRAMES_PER_CHUNK == 2 * FEED_FRAMES

\* const DEFAULT_CHANNELS
DEFAULT_CHANNELS == 2

\* integer division rounding toward zero
TruncDiv(a, b) == IF a >= 0 THEN a \div b ELSE -((-a) \div b)
\* `c as u16` of an i32
AsU16(c) == c % 65536

NoPcm == -1
\* Option::None of a channel slot
Disabled == -1
Decks == {1, 2}
\* mutant: only the argument 2 selects deck B
DeckOf_OnlyTwo(i) == IF i = 2 THEN 2 ELSE 1
\* a deck argument other than 1 selects deck B
DeckOf(i) == IF i = 1 THEN 1 ELSE 2
DeckArgs == {1, 2}

\* pcm.len() / DEFAULT_CHANNELS
TotalFrames(pcm) == pcm \div DEFAULT_CHANNELS

----------------------------------------------------------------------------
(* State after construction *)

\* Option<f32> of a track's BPM
NoBpm == [some |-> FALSE, v |-> 0]
SomeBpm(b) == [some |-> TRUE, v |-> b]
\* f64::NAN as an argument and f32::NAN as a stored tempo
NaN == -1000
\* a playback rate is a fraction <<numerator, denominator>>, or <<NaN, 1>>
RateOne == <<1, 1>>
\* EngineState::new: master_tempo: 130.0
MasterTempoDefault == 130

\* DeckState: `reservoir` is the number of frames in the stretcher's
\* reservoir, `content` tells whether the PCM is silence or audio, and
\* `eq_memory` is the x1 of the equaliser's first-stage filters: the last
\* left and right input samples that went through them
\* EqCutState::default: no band is cut
EqCutStateDefault == [low |-> FALSE, mid |-> FALSE, high |-> FALSE]

DeckStateNew ==
  [pcm |-> NoPcm, position |-> 0, playing |-> FALSE,
   loop_enabled |-> FALSE, loop_start |-> 0, loop_end |-> 0,
   reservoir |-> 0, gain |-> SampleUnit, content |-> "none",
   bpm |-> NoBpm, rate |-> RateOne, cut_state |-> EqCutStateDefault,
   eq_memory |-> <<0, 0>>]

CrossfadeStateDefault ==
  [position |-> 0, active |-> FALSE, direction |-> "None",
   remaining_frames |-> 0, total_frames |-> 0,
   start_position |-> 0, target_position |-> 0]

ChannelConfigDefault ==
  [output_channels |-> DEFAULT_CHANNELS, main_channels |-> <<0, 1>>,
   cue_channels |-> <<Disabled, Disabled>>,
   deck_a_cue |-> FALSE, deck_b_cue |-> FALSE]

NoStream == 0
\* a BeatDetector that detect was not called on
\* the engine mutex free, the processing thread at the top of its loop, no
\* stream built, no callback and no public operation running
LkIdle ==
  [holder |-> "none",
   pc |-> [process |-> "check", output |-> "idle", input |-> "idle",
           control |-> "idle"],
   output_live |-> FALSE, input_live |-> FALSE, new_input_live |-> FALSE,
   input_from |-> "stored", running |-> TRUE]
\* RecordingThread::new: no thread handle, no sender; no recording loop runs
RecIdle ==
  [thread |-> FALSE, sender |-> FALSE, loop |-> "none", channel |-> <<>>,
   writer |-> "None", written |-> 0, sent |-> 0,
   pc |-> "idle", returned |-> "none", result |-> "none"]
TsIdle == [pc |-> "idle", pcm |-> 0, position |-> 0, frames_fed |-> 0,
           reservoir |-> <<>>, received |-> 0, output |-> <<>>]
BdIdle == [pc |-> "idle", sample_rate |-> 0, duration |-> 0, bpm |-> 0, best_phase |-> 0,
           beats |-> <<>>, confidence |-> 0]
\* Option<Vec<i32>> arguments of configure_device
NoArg == [some |-> FALSE, v |-> <<>>]
Arg(v) == [some |-> TRUE, v |-> v]
\* no call of configure_device yet: no stream of either kind.  live_outputs
\* and live_inputs count the streams that were built and started and not yet
\* dropped; changed is history: the call in progress, or the last one, has
\* changed the output stream, the channel configuration or the queue
DevIdle == [pc |-> "idle", input_stream |-> FALSE, new_input_stream |-> FALSE,
            live_inputs |-> 0, live_outputs |-> 0, output_channels |-> 0,
            main_channels |-> NoArg, cue_channels |-> NoArg,
            result |-> "none", changed |-> FALSE]
\* the host between two calls
HostIdle == [pc |-> "idle", output_channels |-> 0, main_channels |-> NoArg,
             cue_channels |-> NoArg]
NoChunk == <<>>
\* nothing returned by process_audio_chunk yet
NoOutput == [panic |-> FALSE, samples |-> NoChunk, output_channels |-> 0,
             stretched |-> <<>>, buffer |-> <<>>, deck_mix |-> <<>>, mix |-> <<>>,
             curve_sq |-> <<>>]
\* Option::None of update_reason
NoReason == "none"
\* no slice handed to the output callback
NoData == <<>>

MicrophoneStateDefault ==
  [enabled |-> FALSE, gain |-> SampleUnit, talkover_ducking |-> SampleUnit \div 2,
   input_buffer |-> <<>>, peak |-> 0]

\* `updated` is history: the time of the latest update_peak_hold
LevelMeterStateDefault ==
  [peak |-> <<0, 0>>, peak_hold |-> <<0, 0>>, peak_hold_time |-> <<0, 0>>,
   updated |-> 0]

\* EngineState::new and AudioEngine::new: the processing thread is spawned, no
\* stream is open
InitEngine ==
  /\ deck = [d \in Decks |-> DeckStateNew]
  /\ crossfade = CrossfadeStateDefault
  /\ last = "new"
  /\ channel_config = ChannelConfigDefault
  /\ output_queue = <<>>
  /\ running = TRUE
  /\ pt = [pc |-> "loop", current_output_channels |-> DEFAULT_CHANNELS,
           chunk |-> NoChunk, chunks_after_close |-> 0]
  /\ host = HostIdle
  /\ stream = NoStream
  /\ microphone = MicrophoneStateDefault
  /\ levels = LevelMeterStateDefault
  /\ now = 0
  /\ output = NoOutput
  /\ data = NoData
  /\ update_reason = NoReason
  /\ master_tempo = MasterTempoDefault
  /\ bd = BdIdle
  /\ ts = TsIdle
  /\ dev = DevIdle
  /\ lk = LkIdle
  /\ rec = RecIdle
  /\ dispatched = FALSE

----------------------------------------------------------------------------
(* TimeStretcher::process *)

\* Output frames the stretcher hands back after a feed of n frames: none
\* (latency), n (tempo 1.0) or 2n (tempo 0.5).
Yields(n) == {0, n, 2 * n}

\* The feed loop: the set of <<frames_fed, reservoir>> it can end with.
RECURSIVE FeedLoop(_, _, _, _)
FeedLoop(pcm, position, frames_fed, reservoir) ==
  LET remaining == SatSub(TotalFrames(pcm), position + frames_fed)
      chunk_size == Min(remaining, FEED_FRAMES)
      end_idx == (position + frames_fed + chunk_size) * 2
  IN IF reservoir >= FRAMES_PER_CHUNK * 2 \/ remaining = 0
       THEN {<<frames_fed, reservoir>>}
       ELSE IF end_idx <= pcm
         THEN UNION {FeedLoop(pcm, position, frames_fed + chunk_size, reservoir + r) :
                       r \in Yields(chunk_size)}
         ELSE {}

\* <<frames_fed, frames copied out, reservoir left>> of one call
StretcherProcess(pcm, position, reservoir) ==
  {<<o[1], Min(o[2], FRAMES_PER_CHUNK), o[2] - Min(o[2], FRAMES_PER_CHUNK)>> :
     o \in FeedLoop(pcm, position, 0, reservoir)}

----------------------------------------------------------------------------
(* TimeStretcher::process step by step, on a stretcher of its own.  Every
   frame the stretcher puts out carries its number in output order; a frame
   of silence is 0. *)

\* the frames numbered from..to in order
Frames(from, to) == [k \in 1..(to - from + 1) |-> from + k - 1]

\* process is called with `reservoir` frames left over from earlier calls
TsProcess(pcm, position, reservoir) ==
  /\ ts.pc \in {"idle", "done"}
  /\ ts' = [pc |-> "loop", pcm |-> pcm, position |-> position, frames_fed |-> 0,
            reservoir |-> Frames(1, reservoir), received |-> reservoir,
            output |-> <<>>]
  /\ UNCHANGED <<engineState, bd, dev, lk, rec>>

\* mutant: the loop ends when a feed brings no output
TsFeed_UntilQuiet(received) ==
  /\ ts.pc = "loop"
  /\ LET remaining == SatSub(TotalFrames(ts.pcm), ts.position + ts.frames_fed)
         chunk_size == Min(remaining, FEED_FRAMES)
         end_idx == (ts.position + ts.frames_fed + chunk_size) * DEFAULT_CHANNELS
         fed == IF end_idx <= ts.pcm THEN chunk_size ELSE 0
         out == IF fed > 0 THEN received ELSE 0
     IN IF Len(ts.reservoir) >= FRAMES_PER_CHUNK * 2 \/ remaining = 0
          THEN ts' = [ts EXCEPT !.pc = "copy"]
          ELSE /\ out \in Yields(fed)
               /\ ts' = [ts EXCEPT
                           !.pc = IF out = 0 THEN "copy" ELSE "loop",
                           !.frames_fed = @ + fed,
                           !.reservoir = @ \o Frames(ts.received + 1, ts.received + out),
                           !.received = @ + out]
  /\ UNCHANGED <<engineState, bd, dev, lk, rec>>

\* one test of the loop condition and, when it holds, one turn of the loop
\* (lines 86-106): the stretcher hands back `received` frames for the feed
TsFeed(received) ==
  /\ ts.pc = "loop"
  /\ LET remaining == SatSub(TotalFrames(ts.pcm), ts.position + ts.frames_fed)
         chunk_size == Min(remaining, FEED_FRAMES)
         end_idx == (ts.position + ts.frames_fed + chunk_size) * DEFAULT_CHANNELS
         fed == IF end_idx <= ts.pcm THEN chunk_size ELSE 0
         out == IF fed > 0 THEN received ELSE 0
     IN IF Len(ts.reservoir) >= FRAMES_PER_CHUNK * 2 \/ remaining = 0
          THEN ts' = [ts EXCEPT !.pc = "copy"]
          ELSE /\ out \in Yields(fed)
               /\ ts' = [ts EXCEPT
                           !.frames_fed = @ + fed,
                           !.reservoir = @ \o Frames(ts.received + 1, ts.received + out),
                           !.received = @ + out]
  /\ UNCHANGED <<engineState, bd, dev, lk, rec>>

\* lines 108-129: the head of the reservoir is copied out and the rest of
\* the output is silence
TsCopy ==
  /\ ts.pc = "copy"
  /\ LET available == Len(ts.reservoir)
         to_copy == Min(available, FRAMES_PER_CHUNK)
     IN ts' = [ts EXCEPT
                 !.pc = "done",
                 !.output = [k \in 1..FRAMES_PER_CHUNK |->
                               IF k <= to_copy THEN ts.reservoir[k] ELSE 0],
                 !.reservoir = SubSeq(@, to_copy + 1, available)]
  /\ UNCHANGED <<engineState, bd, dev, lk, rec>>

----------------------------------------------------------------------------
(* Inputs the host is modelled to pass *)

\* pcm lengths in samples: empty, odd, and the longest
PcmLens == {0, 2 * MaxTrackFrames - 3, 2 * MaxTrackFrames}
\* positions 0.0-1.0 given as fractions <<numerator, denominator>>: -1 (clamped
\* to 0), 1/2 and 2 (clamped to 1)
Fractions == {<<-1, 1>>, <<1, 2>>, <<2, 1>>}
\* start_seconds * sample_rate and end_seconds * sample_rate, in frames
BeatFrames == {-1, 1, 2, MaxTrackFrames + 1}
\* crossfader positions and targets, in units of 1/PosUnit
FaderInputs == {-1, 0, 1, PosUnit, PosUnit + 1}
NoTarget == -2
\* duration * sample_rate, in frames
DurationFrames == {0, FRAMES_PER_CHUNK + 1, 2 * FRAMES_PER_CHUNK}

----------------------------------------------------------------------------
(* Public operations on the decks *)

\* position.clamp(0.0, 1.0) of a fraction
ClampFraction(q) ==
  IF q[1] < 0 THEN <<0, 1>> ELSE IF q[1] > q[2] THEN <<1, 1>> ELSE q

\* (total_frames as f64 * q) as usize, q already clamped
FrameAt(total_frames, q) == AsUsize(total_frames * q[1], q[2])

\* calculate_playback_rate(track_bpm, master_tempo): (master_tempo /
\* bpm).clamp(0.5, 2.0) for a BPM above 0 (a NaN is not), 1.0 otherwise; a
\* NaN master tempo gives a NaN rate
CalculatePlaybackRate(track_bpm, tempo) ==
  IF track_bpm.some /\ track_bpm.v # NaN /\ track_bpm.v > 0
    THEN IF tempo = NaN THEN <<NaN, 1>>
         ELSE IF 2 * tempo < track_bpm.v THEN <<1, 2>>
         ELSE IF tempo > 2 * track_bpm.v THEN <<2, 1>>
         ELSE <<tempo, track_bpm.v>>
    ELSE RateOne

\* AudioEngine::load_track with the track's BPM
LoadTrackBpm(i, pcm, bpm, content) ==
  /\ deck' = [deck EXCEPT ![DeckOf(i)] =
                [@ EXCEPT !.pcm = pcm, !.position = 0, !.playing = FALSE,
                          !.bpm = bpm,
                          !.rate = CalculatePlaybackRate(bpm, master_tempo),
                          !.reservoir = 0, !.content = content]]
  /\ last' = "load"
  /\ output' = NoOutput
  /\ data' = NoData
  /\ UNCHANGED <<master_tempo, bd, ts, dev, lk, rec>>
  /\ update_reason' = "load"
  /\ dispatched' = FALSE
  /\ UNCHANGED <<crossfade, nonCtl>>

\* const of the range test of set_master_tempo
MaxTempo == 300

\* AudioEngine::set_master_tempo: the range test lets a NaN through, as both
\* of its comparisons are false for a NaN
SetMasterTempo(bpm) ==
  /\ IF bpm # NaN /\ (bpm <= 0 \/ bpm > MaxTempo)
       THEN UNCHANGED <<master_tempo, deck>>
       ELSE /\ master_tempo' = bpm
            /\ deck' = [d \in Decks |->
                         [deck[d] EXCEPT !.rate = CalculatePlaybackRate(deck[d].bpm, bpm)]]
  /\ last' = "op"
  /\ output' = NoOutput
  /\ data' = NoData
  /\ UNCHANGED <<crossfade, nonCtl, notifyVars, bd, ts, dev, lk, rec>>

\* AudioEngine::load_track of a track without a BPM
LoadTrack(i, pcm, content) == LoadTrackBpm(i, pcm, NoBpm, content)

\* AudioEngine::play
Play(i) ==
  /\ deck' = [deck EXCEPT ![DeckOf(i)].playing =
                IF deck[DeckOf(i)].pcm # NoPcm THEN TRUE ELSE @]
  /\ last' = "play"
  /\ output' = NoOutput
  /\ data' = NoData
  /\ UNCHANGED <<master_tempo, bd, ts, dev, lk, rec>>
  /\ update_reason' = "play"
  /\ dispatched' = FALSE
  /\ UNCHANGED <<crossfade, nonCtl>>

\* mutant: stop leaves a running crossfade alone
Stop_NoCancel(i) ==
  /\ deck' = [deck EXCEPT ![DeckOf(i)].playing = FALSE]
  /\ last' = "stop"
  /\ output' = NoOutput
  /\ data' = NoData
  /\ UNCHANGED <<master_tempo, bd, ts, dev, lk, rec>>
  /\ update_reason' = "stop"
  /\ dispatched' = FALSE
  /\ UNCHANGED <<crossfade, nonCtl>>

\* AudioEngine::stop
Stop(i) ==
  /\ deck' = [deck EXCEPT ![DeckOf(i)].playing = FALSE]
  /\ crossfade' = [crossfade EXCEPT !.active = FALSE, !.direction = "None",
                                    !.remaining_frames = 0]
  /\ last' = "stop"
  /\ output' = NoOutput
  /\ data' = NoData
  /\ UNCHANGED <<master_tempo, bd, ts, dev, lk, rec>>
  /\ update_reason' = "stop"
  /\ dispatched' = FALSE
  /\ UNCHANGED nonCtl

\* mutant: seek rounds to the nearest frame
SeekPosition_Round(pcm, q) ==
  (2 * TotalFrames(pcm) * ClampFraction(q)[1] + ClampFraction(q)[2])
    \div (2 * ClampFraction(q)[2])

\* the position seek stores
SeekPosition(pcm, q) == FrameAt(TotalFrames(pcm), ClampFraction(q))

\* AudioEngine::seek
Seek(i, q) ==
  LET dk == deck[DeckOf(i)]
  IN /\ deck' = [deck EXCEPT ![DeckOf(i)] =
                   IF dk.pcm # NoPcm
                     THEN [dk EXCEPT !.position = SeekPosition(dk.pcm, q), !.reservoir = 0]
                     ELSE dk]
     /\ last' = "seek"
     /\ output' = NoOutput
     /\ data' = NoData
     /\ UNCHANGED <<master_tempo, bd, ts, dev, lk, rec>>
     /\ update_reason' = "seek"
     /\ dispatched' = FALSE
     /\ UNCHANGED <<crossfade, nonCtl>>

\* mutant: set_loop enables a loop without comparing its ends
SetLoop_Unchecked(i, start, end, enabled) ==
  LET dk == deck[DeckOf(i)]
      ls == FrameAt(TotalFrames(dk.pcm), ClampFraction(start))
      le == FrameAt(TotalFrames(dk.pcm), ClampFraction(end))
  IN /\ deck' = [deck EXCEPT ![DeckOf(i)] =
                   IF dk.pcm # NoPcm
                     THEN [dk EXCEPT !.loop_start = ls, !.loop_end = le,
                                     !.loop_enabled = enabled]
                     ELSE dk]
     /\ last' = "op"
     /\ output' = NoOutput
     /\ data' = NoData
     /\ UNCHANGED <<master_tempo, bd, ts, dev, lk, rec>>
     /\ UNCHANGED notifyVars
     /\ UNCHANGED <<crossfade, nonCtl>>

\* AudioEngine::set_loop
SetLoop(i, start, end, enabled) ==
  LET dk == deck[DeckOf(i)]
      ls == FrameAt(TotalFrames(dk.pcm), ClampFraction(start))
      le == FrameAt(TotalFrames(dk.pcm), ClampFraction(end))
  IN /\ deck' = [deck EXCEPT ![DeckOf(i)] =
                   IF dk.pcm # NoPcm
                     THEN [dk EXCEPT !.loop_start = ls, !.loop_end = le,
                                     !.loop_enabled = enabled /\ le > ls]
                     ELSE dk]
     /\ last' = "op"
     /\ output' = NoOutput
     /\ data' = NoData
     /\ UNCHANGED <<master_tempo, bd, ts, dev, lk, rec>>
     /\ UNCHANGED notifyVars
     /\ UNCHANGED <<crossfade, nonCtl>>

\* mutant: the loop end is not capped at the end of the track
BeatLoopEnd_Uncapped(end_frames, total_frames) == AsUsize(end_frames, 1)

\* the loop end set_beat_loop computes: capped at the end of the track
BeatLoopEnd(end_frames, total_frames) == Min(AsUsize(end_frames, 1), total_frames)

\* mutant: set_beat_loop leaves the position where it is
SetBeatLoop_NoJump(i, start_frames, end_frames) ==
  LET dk == deck[DeckOf(i)]
      ls == AsUsize(start_frames, 1)
      le == BeatLoopEnd(end_frames, TotalFrames(dk.pcm))
      jump == FALSE
  IN /\ deck' = [deck EXCEPT ![DeckOf(i)] =
                   IF dk.pcm # NoPcm /\ le > ls
                     THEN [dk EXCEPT !.loop_start = ls, !.loop_end = le,
                                     !.loop_enabled = TRUE,
                                     !.position = IF jump THEN ls ELSE dk.position,
                                     !.reservoir = IF jump THEN 0 ELSE dk.reservoir]
                     ELSE dk]
     /\ last' = "op"
     /\ output' = NoOutput
     /\ data' = NoData
     /\ UNCHANGED <<master_tempo, bd, ts, dev, lk, rec>>
     /\ UNCHANGED notifyVars
     /\ UNCHANGED <<crossfade, nonCtl>>

\* AudioEngine::set_beat_loop
SetBeatLoop(i, start_frames, end_frames) ==
  LET dk == deck[DeckOf(i)]
      ls == AsUsize(start_frames, 1)
      le == BeatLoopEnd(end_frames, TotalFrames(dk.pcm))
      jump == dk.position >= le \/ dk.position < ls
  IN /\ deck' = [deck EXCEPT ![DeckOf(i)] =
                   IF dk.pcm # NoPcm /\ le > ls
                     THEN [dk EXCEPT !.loop_start = ls, !.loop_end = le,
                                     !.loop_enabled = TRUE,
                                     !.position = IF jump THEN ls ELSE dk.position,
                                     !.reservoir = IF jump THEN 0 ELSE dk.reservoir]
                     ELSE dk]
     /\ last' = "op"
     /\ output' = NoOutput
     /\ data' = NoData
     /\ UNCHANGED <<master_tempo, bd, ts, dev, lk, rec>>
     /\ UNCHANGED notifyVars
     /\ UNCHANGED <<crossfade, nonCtl>>

\* AudioEngine::clear_loop
ClearLoop(i) ==
  /\ deck' = [deck EXCEPT ![DeckOf(i)] =
                [@ EXCEPT !.loop_enabled = FALSE, !.loop_start = 0, !.loop_end = 0]]
  /\ last' = "op"
  /\ output' = NoOutput
  /\ data' = NoData
  /\ UNCHANGED <<master_tempo, bd, ts, dev, lk, rec>>
  /\ UNCHANGED notifyVars
  /\ UNCHANGED <<crossfade, nonCtl>>

----------------------------------------------------------------------------
(* Public operations on the crossfader *)

\* AudioEngine::set_crossfader_position
SetCrossfaderPosition(p) ==
  /\ crossfade' = [crossfade EXCEPT !.position = Clamp(p, 0, PosUnit)]
  /\ last' = "op"
  /\ output' = NoOutput
  /\ data' = NoData
  /\ UNCHANGED <<master_tempo, bd, ts, dev, lk, rec>>
  /\ UNCHANGED notifyVars
  /\ UNCHANGED <<deck, nonCtl>>

\* mutant: a target at the current position counts as a fade towards B
CrossfadeDirection_TowardsB(target, current) == IF target >= current THEN "AtoB" ELSE "BtoA"

\* the direction start_crossfade chooses
CrossfadeDirection(target, current) == IF target > current THEN "AtoB" ELSE "BtoA"

\* AudioEngine::start_crossfade
StartCrossfade(target_position, duration_frames) ==
  LET current == crossfade.position
      target == IF target_position # NoTarget
                  THEN Clamp(target_position, 0, PosUnit)
                  ELSE IF deck[1].playing THEN PosUnit ELSE 0
      total_frames == AsUsize(duration_frames, 1)
  IN /\ crossfade' = [crossfade EXCEPT
                        !.active = TRUE,
                        !.direction = CrossfadeDirection(target, current),
                        !.remaining_frames = total_frames,
                        !.total_frames = total_frames,
                        !.start_position = current,
                        !.target_position = target]
     /\ last' = "op"
     /\ output' = NoOutput
     /\ data' = NoData
     /\ UNCHANGED <<master_tempo, bd, ts, dev, lk, rec>>
     /\ UNCHANGED notifyVars
     /\ UNCHANGED <<deck, nonCtl>>

----------------------------------------------------------------------------
(* process_audio_chunk: decks and crossfade *)

\* mutant: the loop wraps only once the position is past loop_end
ProcessDeck_WrapLate(dk) ==
  IF dk.playing /\ dk.pcm # NoPcm
    THEN {LET position == dk.position + o[1]
          IN IF dk.loop_enabled /\ position > dk.loop_end
               THEN [dk EXCEPT !.position = dk.loop_start, !.reservoir = 0]
               ELSE IF position >= TotalFrames(dk.pcm)
                 THEN [dk EXCEPT !.playing = FALSE, !.position = 0, !.reservoir = 0]
                 ELSE [dk EXCEPT !.position = position, !.reservoir = o[3]] :
            o \in StretcherProcess(dk.pcm, dk.position, dk.reservoir)}
    ELSE {dk}

\* One deck's part of the chunk (lines 1188-1218 for A, 1221-1251 for B):
\* the set of deck states it can end in.
ProcessDeck(dk) ==
  IF dk.playing /\ dk.pcm # NoPcm
    THEN {LET position == dk.position + o[1]
          IN IF dk.loop_enabled /\ position >= dk.loop_end
               THEN [dk EXCEPT !.position = dk.loop_start, !.reservoir = 0]
               ELSE IF position >= TotalFrames(dk.pcm)
                 THEN [dk EXCEPT !.playing = FALSE, !.position = 0, !.reservoir = 0]
                 ELSE [dk EXCEPT !.position = position, !.reservoir = o[3]] :
            o \in StretcherProcess(dk.pcm, dk.position, dk.reservoir)}
    ELSE {dk}

\* the interpolated position while a crossfade runs
CrossfadeProgress(xf, remaining) ==
  xf.start_position
    + ((xf.target_position - xf.start_position) * (xf.total_frames - remaining))
        \div xf.total_frames

\* mutant: a completed crossfade leaves the source deck playing
HandleCrossfade_KeepSource(xf, playing) ==
  IF xf.active /\ xf.remaining_frames > 0
    THEN LET remaining == SatSub(xf.remaining_frames, FRAMES_PER_CHUNK)
         IN IF remaining = 0
              THEN <<[xf EXCEPT !.remaining_frames = 0,
                                !.position = xf.target_position,
                                !.active = FALSE, !.direction = "None"],
                     CASE xf.direction = "AtoB" -> [playing EXCEPT ![2] = TRUE]
                       [] xf.direction = "BtoA" -> [playing EXCEPT ![1] = TRUE]
                       [] OTHER -> playing>>
              ELSE <<[xf EXCEPT !.remaining_frames = remaining,
                                !.position = CrossfadeProgress(xf, remaining)],
                     CASE xf.direction = "AtoB" -> [playing EXCEPT ![2] = TRUE]
                       [] xf.direction = "BtoA" -> [playing EXCEPT ![1] = TRUE]
                       [] OTHER -> playing>>
    ELSE <<xf, playing>>

\* The auto-crossfade part of the chunk (lines 1253-1296): <<crossfade, playing>>
\* from the crossfade and the decks' playing flags after the decks were processed.
HandleCrossfade(xf, playing) ==
  IF xf.active /\ xf.remaining_frames > 0
    THEN LET remaining == SatSub(xf.remaining_frames, FRAMES_PER_CHUNK)
         IN IF remaining = 0
              THEN <<[xf EXCEPT !.remaining_frames = 0,
                                !.position = xf.target_position,
                                !.active = FALSE, !.direction = "None"],
                     CASE xf.direction = "AtoB" -> [playing EXCEPT ![1] = FALSE, ![2] = TRUE]
                       [] xf.direction = "BtoA" -> [playing EXCEPT ![2] = FALSE, ![1] = TRUE]
                       [] OTHER -> playing>>
              ELSE <<[xf EXCEPT !.remaining_frames = remaining,
                                !.position = CrossfadeProgress(xf, remaining)],
                     CASE xf.direction = "AtoB" -> [playing EXCEPT ![2] = TRUE]
                       [] xf.direction = "BtoA" -> [playing EXCEPT ![1] = TRUE]
                       [] OTHER -> playing>>
    ELSE <<xf, playing>>

\* process_audio_chunk, as far as the decks and the crossfade go; eq_memory
\* is what the equalisers of the two decks are left with
ChunkDecksAndCrossfade(eq_memory) ==
  \E da \in ProcessDeck(deck[1]), db \in ProcessDeck(deck[2]) :
    LET h == HandleCrossfade(crossfade, [d \in Decks |-> IF d = 1 THEN da.playing ELSE db.playing])
    IN /\ deck' = [d \in Decks |->
                     [(IF d = 1 THEN da ELSE db) EXCEPT !.playing = h[2][d],
                                                       !.eq_memory = eq_memory[d]]]
       /\ crossfade' = h[1]
       /\ last' = "chunk"

----------------------------------------------------------------------------
(* process_audio_chunk: gains, mix, microphone and channel routing.
   Samples and gains are fixed-point numbers, 1.0 being SampleUnit; buffers
   are sequences of FRAMES_PER_CHUNK stereo frames, sample i of the code at
   index i + 1. *)

BufferLen == FRAMES_PER_CHUNK * DEFAULT_CHANNELS
Silence == [i \in 1..BufferLen |-> 0]

\* a fixed-point product
Mul(a, g) == TruncDiv(a * g, SampleUnit)
\* mutant: samples are not clamped
ClampSample_Off(x) == x
\* f32::clamp(-1.0, 1.0)
ClampSample(x) == Clamp(x, -SampleUnit, SampleUnit)

\* sin(p * PI / 2) for a fader position p in 0..PosUnit, by Bhaskara's
\* rational approximation 4x / (5 - x), x = (p/U)(2 - p/U)
CurveSin(p) ==
  LET x == p * (2 * PosUnit - p)
  IN (SampleUnit * 4 * x) \div (5 * PosUnit * PosUnit - x)
\* cos(p * PI / 2) = sin((1 - p) * PI / 2)
CurveCos(p) == CurveSin(PosUnit - p)

\* The squares of sin and cos at the angle (p / PosUnit) * PI / 2, in
\* quarters, exact at the angles 0, 30, 45, 60 and 90 degrees
SinSq(p) ==
  CASE p = 0 -> 0
    [] 3 * p = PosUnit -> 1
    [] 2 * p = PosUnit -> 2
    [] 3 * p = 2 * PosUnit -> 3
    [] p = PosUnit -> 4
CosSq(p) ==
  CASE p = 0 -> 4
    [] 3 * p = PosUnit -> 3
    [] 2 * p = PosUnit -> 2
    [] 3 * p = 2 * PosUnit -> 1
    [] p = PosUnit -> 0

\* mutant: a linear crossfade, gain_a = 1 - position and gain_b = position
CurveGainSq_Linear(position, playing) ==
  <<IF playing[1] THEN (4 * (PosUnit - position) * (PosUnit - position)) \div (PosUnit * PosUnit)
                  ELSE 0,
    IF playing[2] THEN (4 * position * position) \div (PosUnit * PosUnit) ELSE 0>>

\* the squares, in quarters, of gain_a and gain_b (lines 1299-1309)
CurveGainSq(position, playing) ==
  <<IF playing[1] THEN CosSq(position) ELSE 0,
    IF playing[2] THEN SinSq(position) ELSE 0>>

\* the mix of the two deck buffers (lines 1298-1324)
MixDecks(buffer_a, buffer_b, playing, gain, position) ==
  LET gain_a == IF playing[1] THEN CurveCos(position) ELSE 0
      gain_b == IF playing[2] THEN CurveSin(position) ELSE 0
      deck_a_gain == Mul(gain_a, gain[1])
      deck_b_gain == Mul(gain_b, gain[2])
  IN [i \in 1..BufferLen |-> Mul(buffer_a[i], deck_a_gain) + Mul(buffer_b[i], deck_b_gain)]

\* mutant: a starved microphone still ducks the music
ApplyMicTalkover_DuckStarved(mic, mix) ==
  LET music_attenuation == IF mic.enabled THEN SampleUnit - mic.talkover_ducking
                                          ELSE SampleUnit
      mic_gain == IF mic.enabled THEN mic.gain ELSE 0
  IN [i \in 1..BufferLen |->
        Mul(mix[i], music_attenuation)
          + (IF Len(mic.input_buffer) < BufferLen THEN 0
             ELSE Mul(mic.input_buffer[i], mic_gain))]

\* apply_mic_talkover: the mix after the microphone was applied
ApplyMicTalkover(mic, mix) ==
  IF Len(mic.input_buffer) < BufferLen
    THEN mix
    ELSE LET music_attenuation == IF mic.enabled THEN SampleUnit - mic.talkover_ducking
                                                 ELSE SampleUnit
             mic_gain == IF mic.enabled THEN mic.gain ELSE 0
         IN [i \in 1..BufferLen |->
               Mul(mix[i], music_attenuation) + Mul(mic.input_buffer[i], mic_gain)]

\* The writes map_channels makes into one output frame, in order, as
\* <<channel, value>> pairs (lines 1492-1546).
FrameWrites(config, l, r, a_l, a_r, b_l, b_r) ==
  LET main_l == config.main_channels[1]
      main_r == config.main_channels[2]
      cue_l == config.cue_channels[1]
      cue_r == config.cue_channels[2]
      mono_main == TruncDiv(l + r, 2)
      main == IF main_l # Disabled /\ main_r # Disabled
                THEN <<<<main_l, l>>, <<main_r, r>>>>
                ELSE IF main_l # Disabled THEN <<<<main_l, mono_main>>>>
                ELSE IF main_r # Disabled THEN <<<<main_r, mono_main>>>>
                ELSE <<>>
      cue_sources == (IF config.deck_a_cue THEN 1 ELSE 0) + (IF config.deck_b_cue THEN 1 ELSE 0)
      sum_l == (IF config.deck_a_cue THEN a_l ELSE 0) + (IF config.deck_b_cue THEN b_l ELSE 0)
      sum_r == (IF config.deck_a_cue THEN a_r ELSE 0) + (IF config.deck_b_cue THEN b_r ELSE 0)
      cue_left == ClampSample(TruncDiv(sum_l, Max(cue_sources, 1)))
      cue_right == ClampSample(TruncDiv(sum_r, Max(cue_sources, 1)))
      mono_cue == TruncDiv(cue_left + cue_right, 2)
      cue == IF cue_sources > 0 /\ (cue_l # Disabled \/ cue_r # Disabled)
               THEN IF cue_l # Disabled /\ cue_r # Disabled
                      THEN <<<<cue_l, cue_left>>, <<cue_r, cue_right>>>>
                      ELSE IF cue_l # Disabled THEN <<<<cue_l, mono_cue>>>>
                      ELSE <<<<cue_r, mono_cue>>>>
               ELSE <<>>
  IN main \o cue

\* the value the last write to channel c leaves, 0.0 when none writes it
RECURSIVE Written(_, _, _)
Written(writes, n, c) ==
  IF n = 0 THEN 0
  ELSE IF writes[n][1] = c THEN writes[n][2]
  ELSE Written(writes, n - 1, c)

\* the final clip of map_channels (line 1550)
ClipOutput(x) == ClampSample(x)

\* map_channels: [panic, samples].  A write to a channel index that is not
\* below out_ch runs past the end of the output vector in the last frame at
\* the latest, and the indexing panics.
MapChannels(mix, output_channels, config, buffer_a, buffer_b) ==
  LET out_ch == output_channels
      W(f) == FrameWrites(config, mix[2 * f + 1], mix[2 * f + 2],
                          buffer_a[2 * f + 1], buffer_a[2 * f + 2],
                          buffer_b[2 * f + 1], buffer_b[2 * f + 2])
      out_of_range == \E f \in 0..(FRAMES_PER_CHUNK - 1) :
                        \E k \in 1..Len(W(f)) : W(f)[k][1] >= out_ch
  IN IF out_of_range
       THEN [panic |-> TRUE, samples |-> <<>>]
       ELSE [panic |-> FALSE,
             samples |-> [i \in 1..(FRAMES_PER_CHUNK * out_ch) |->
                            LET f == (i - 1) \div out_ch
                                c == (i - 1) % out_ch
                            IN ClipOutput(Written(W(f), Len(W(f)), c))]]

\* mutant: the cue is fed from the mix instead of the deck buffers
RouteChunk_CuePostMix(mix, output_channels, config, buffer_a, buffer_b) ==
  LET needs_channel_mapping ==
        \/ output_channels # DEFAULT_CHANNELS
        \/ config.deck_a_cue
        \/ config.deck_b_cue
        \/ config.cue_channels[1] # Disabled
        \/ config.cue_channels[2] # Disabled
  IN IF needs_channel_mapping
       THEN MapChannels(mix, output_channels, config, mix, mix)
       ELSE [panic |-> FALSE, samples |-> [i \in 1..BufferLen |-> ClampSample(mix[i])]]

\* the routing decision and the output of the chunk (lines 1329-1349)
RouteChunk(mix, output_channels, config, buffer_a, buffer_b) ==
  LET needs_channel_mapping ==
        \/ output_channels # DEFAULT_CHANNELS
        \/ config.deck_a_cue
        \/ config.deck_b_cue
        \/ config.cue_channels[1] # Disabled
        \/ config.cue_channels[2] # Disabled
  IN IF needs_channel_mapping
       THEN MapChannels(mix, output_channels, config, buffer_a, buffer_b)
       ELSE [panic |-> FALSE, samples |-> [i \in 1..BufferLen |-> ClampSample(mix[i])]]

\* the microphone after apply_mic_talkover: a chunk's worth of samples is
\* consumed when there is one, and the peak follows the consumed samples
Abs(x) == IF x < 0 THEN -x ELSE x
RECURSIVE PeakOf(_, _)
PeakOf(buffer, n) == IF n = 0 THEN 0 ELSE Max(PeakOf(buffer, n - 1), Abs(buffer[n]))
MicAfterChunk(mic) ==
  IF Len(mic.input_buffer) < BufferLen
    THEN mic
    ELSE [mic EXCEPT !.input_buffer = SubSeq(@, BufferLen + 1, Len(@)),
                     !.peak = PeakOf(mic.input_buffer, BufferLen)]

\* calculate_peak
CalculatePeak(buffer) == PeakOf(buffer, Min(FRAMES_PER_CHUNK, Len(buffer) \div DEFAULT_CHANNELS) * DEFAULT_CHANNELS)

\* const HOLD_DURATION, in milliseconds
HOLD_DURATION == 1500
\* const DECAY_RATE, in dB per second
DECAY_RATE == 6

\* x * 10^(-mdb / 20000) for a decay of mdb thousandths of a dB: a halving
\* for every 6 dB, linear in between
RECURSIVE Attenuate(_, _)
Attenuate(x, mdb) ==
  IF mdb >= 6000 THEN Attenuate(x \div 2, mdb - 6000)
  ELSE (x * (12000 - mdb)) \div 12000

\* mutant: the decayed hold value is not floored at the current peak
HoldAfter_NoFloor(peak, peak_hold, peak_hold_time, t) ==
  IF peak > peak_hold
    THEN <<peak, t>>
    ELSE IF (t - peak_hold_time) * TickMillis > HOLD_DURATION
      THEN LET decay_ms == (t - peak_hold_time) * TickMillis - HOLD_DURATION
           IN <<IF peak_hold > 0 THEN Attenuate(peak_hold, DECAY_RATE * decay_ms) ELSE 0,
                peak_hold_time>>
      ELSE <<peak_hold, peak_hold_time>>

\* update_peak_hold for one deck: <<peak_hold, peak_hold_time>> at time t
HoldAfter(peak, peak_hold, peak_hold_time, t) ==
  IF peak > peak_hold
    THEN <<peak, t>>
    ELSE IF (t - peak_hold_time) * TickMillis > HOLD_DURATION
      THEN LET decay_ms == (t - peak_hold_time) * TickMillis - HOLD_DURATION
           IN <<IF peak_hold > 0
                  THEN Max(Attenuate(peak_hold, DECAY_RATE * decay_ms), peak)
                  ELSE 0,
                peak_hold_time>>
      ELSE <<peak_hold, peak_hold_time>>

\* update_peak_hold
UpdatePeakHold(lv, t) ==
  LET h == [d \in Decks |-> HoldAfter(lv.peak[d], lv.peak_hold[d], lv.peak_hold_time[d], t)]
  IN [lv EXCEPT !.peak_hold = <<h[1][1], h[2][1]>>,
                !.peak_hold_time = <<h[1][2], h[2][2]>>,
                !.updated = t]

\* a buffer of FRAMES_PER_CHUNK frames <<l, r>>
Buffer(l, r) == [i \in 1..BufferLen |-> IF i % 2 = 1 THEN l ELSE r]
\* what the stretcher, or the equaliser's band filters, leave in the buffer
\* of a deck that plays audio: nothing yet, full scale, or an overshoot past
\* full scale
AudioBuffers ==
  {Silence, Buffer(SampleUnit, -SampleUnit), Buffer(2 * SampleUnit, SampleUnit)}
\* the buffer of a deck in one chunk as the stretcher leaves it (lines
\* 1183-1201): filled only when the deck plays a loaded track
DeckBuffers(dk) ==
  IF dk.playing /\ dk.pcm # NoPcm /\ dk.content = "audio" THEN AudioBuffers ELSE {Silence}

\* mutant: the equaliser has no bypass, the buffer always goes through the
\* band filters
EqProcess_NoBypass(cut_state, buffer) ==
  IF cut_state.low /\ cut_state.mid /\ cut_state.high
    THEN {[i \in 1..Len(buffer) |-> IF i <= FRAMES_PER_CHUNK * 2 THEN 0 ELSE buffer[i]]}
    ELSE AudioBuffers

\* EqProcessor::process(buffer, frames): the buffers it can leave.  What the
\* band filters make of a buffer depends on their memory and is left open.
EqProcess(cut_state, buffer) ==
  IF ~cut_state.low /\ ~cut_state.mid /\ ~cut_state.high
    THEN {buffer}
    ELSE IF cut_state.low /\ cut_state.mid /\ cut_state.high
      THEN {[i \in 1..Len(buffer) |-> IF i <= FRAMES_PER_CHUNK * 2 THEN 0 ELSE buffer[i]]}
      ELSE AudioBuffers

\* the filters' memory after EqProcessor::process: only the band filters
\* take the buffer in
EqMemoryAfter(cut_state, eq_memory, buffer) ==
  IF (cut_state.low /\ cut_state.mid /\ cut_state.high)
     \/ (~cut_state.low /\ ~cut_state.mid /\ ~cut_state.high)
    THEN eq_memory
    ELSE <<buffer[Len(buffer) - 1], buffer[Len(buffer)]>>

\* the equaliser runs on the buffer of a deck that plays a loaded track
\* (lines 1203-1204 and 1236-1237)
EqRuns(dk) == dk.playing /\ dk.pcm # NoPcm

\* process_audio_chunk(state, sample_rate, output_channels)
ProcessAudioChunk(output_channels) ==
  \E stretched_a \in DeckBuffers(deck[1]), stretched_b \in DeckBuffers(deck[2]) :
    \E buffer_a \in (IF EqRuns(deck[1]) THEN EqProcess(deck[1].cut_state, stretched_a)
                                        ELSE {stretched_a}),
       buffer_b \in (IF EqRuns(deck[2]) THEN EqProcess(deck[2].cut_state, stretched_b)
                                        ELSE {stretched_b}) :
      /\ ChunkDecksAndCrossfade(
           <<IF EqRuns(deck[1])
               THEN EqMemoryAfter(deck[1].cut_state, deck[1].eq_memory, stretched_a)
               ELSE deck[1].eq_memory,
             IF EqRuns(deck[2])
               THEN EqMemoryAfter(deck[2].cut_state, deck[2].eq_memory, stretched_b)
               ELSE deck[2].eq_memory>>)
      /\ LET mix == MixDecks(buffer_a, buffer_b, [d \in Decks |-> deck'[d].playing],
                             [d \in Decks |-> deck'[d].gain], crossfade'.position)
             mic_mix == ApplyMicTalkover(microphone, mix)
             out == RouteChunk(mic_mix, output_channels, channel_config, buffer_a, buffer_b)
         IN /\ levels' = UpdatePeakHold(
                           [levels EXCEPT !.peak = <<Mul(CalculatePeak(buffer_a), deck'[1].gain),
                                                     Mul(CalculatePeak(buffer_b), deck'[2].gain)>>],
                           now)
            /\ microphone' = MicAfterChunk(microphone)
            /\ output' = [panic |-> out.panic, samples |-> out.samples,
                          output_channels |-> output_channels,
                          stretched |-> <<stretched_a, stretched_b>>,
                          buffer |-> <<buffer_a, buffer_b>>,
                          deck_mix |-> mix,
                          mix |-> mic_mix,
                          curve_sq |-> CurveGainSq(crossfade'.position,
                                                   [d \in Decks |-> deck'[d].playing])]
            /\ data' = NoData
            /\ UNCHANGED <<master_tempo, bd, ts, dev, lk, rec>>
            /\ update_reason' = NoReason
            /\ dispatched' = FALSE

\* a chunk processed by the processing thread with the channel count of the
\* current configuration
ProcessChunkCtl ==
  /\ ProcessAudioChunk(channel_config.output_channels)
  /\ UNCHANGED <<focus, engineVars, now>>

\* AudioEngine::set_deck_gain
SetDeckGain(i, gain) ==
  /\ deck' = [deck EXCEPT ![DeckOf(i)].gain =
                Mul(Clamp(gain, 0, SampleUnit), Clamp(gain, 0, SampleUnit))]
  /\ output' = NoOutput
  /\ data' = NoData
  /\ UNCHANGED <<master_tempo, bd, ts, dev, lk, rec>>
  /\ UNCHANGED notifyVars
  /\ UNCHANGED <<last, crossfade, nonCtl>>

\* the band names set_eq_cut accepts
Bands == {"low", "mid", "high"}

\* AudioEngine::set_eq_cut and EqProcessor::set_cut: a band name that is not
\* known is an error, and nothing is changed
SetEqCut(i, band, enabled) ==
  /\ deck' = IF band \in Bands
               THEN [deck EXCEPT ![DeckOf(i)].cut_state[band] = enabled]
               ELSE deck
  /\ output' = NoOutput
  /\ data' = NoData
  /\ UNCHANGED <<master_tempo, bd, ts, dev, lk, rec>>
  /\ UNCHANGED notifyVars
  /\ UNCHANGED <<last, crossfade, nonCtl>>

\* AudioEngine::set_deck_cue_enabled
SetDeckCueEnabled(i, enabled) ==
  /\ channel_config' = IF i = 1 THEN [channel_config EXCEPT !.deck_a_cue = enabled]
                                ELSE [channel_config EXCEPT !.deck_b_cue = enabled]
  /\ output' = NoOutput
  /\ data' = NoData
  /\ UNCHANGED <<master_tempo, bd, ts, dev, lk, rec>>
  /\ UNCHANGED notifyVars
  /\ UNCHANGED <<last, deck, crossfade, focus, output_queue, running, pt, host, stream, audioVars, now>>

\* AudioEngine::set_mic_enabled
SetMicEnabled(enabled) ==
  /\ microphone' = IF enabled THEN [microphone EXCEPT !.enabled = TRUE]
                   ELSE [microphone EXCEPT !.enabled = FALSE, !.input_buffer = <<>>,
                                           !.peak = 0]
  /\ output' = NoOutput
  /\ data' = NoData
  /\ UNCHANGED <<master_tempo, bd, ts, dev, lk, rec>>
  /\ UNCHANGED notifyVars
  /\ UNCHANGED <<last, deck, crossfade, focus, engineVars, levels, now>>

\* AudioEngine::set_mic_gain
SetMicGain(gain) ==
  /\ microphone' = [microphone EXCEPT !.gain = Clamp(gain, 0, 2 * SampleUnit)]
  /\ output' = NoOutput
  /\ data' = NoData
  /\ UNCHANGED <<master_tempo, bd, ts, dev, lk, rec>>
  /\ UNCHANGED notifyVars
  /\ UNCHANGED <<last, deck, crossfade, focus, engineVars, levels, now>>

\* AudioEngine::set_talkover_ducking
SetTalkoverDucking(ducking) ==
  /\ microphone' = [microphone EXCEPT !.talkover_ducking = Clamp(ducking, 0, SampleUnit)]
  /\ output' = NoOutput
  /\ data' = NoData
  /\ UNCHANGED <<master_tempo, bd, ts, dev, lk, rec>>
  /\ UNCHANGED notifyVars
  /\ UNCHANGED <<last, deck, crossfade, focus, engineVars, levels, now>>

\* scaled input_sample_rate / 10 of the input device: more than a chunk, as
\* 4410 is more than 2048
InputTenthSecondFrames == FRAMES_PER_CHUNK + 1

\* mutant: the newest samples are dropped
KeepLast_DropNewest(q, max_samples) ==
  IF Len(q) > max_samples THEN SubSeq(q, 1, max_samples) ELSE q

\* the oldest samples dropped until at most max_samples are left
KeepLast(q, max_samples) ==
  IF Len(q) > max_samples THEN SubSeq(q, Len(q) - max_samples + 1, Len(q)) ELSE q

\* the input callback (lines 1116-1141) given `frames` mono frames of value
\* `sample`
InputCallback(sample, frames) ==
  /\ microphone' =
       [microphone EXCEPT
          !.input_buffer = KeepLast(@ \o [i \in 1..(2 * frames) |-> sample],
                                    InputTenthSecondFrames * 2),
          !.peak = (@ * 9 + Abs(sample)) \div 10]
  /\ output' = NoOutput
  /\ data' = NoData
  /\ UNCHANGED <<master_tempo, bd, ts, dev, lk, rec>>
  /\ UNCHANGED notifyVars
  /\ UNCHANGED <<last, deck, crossfade, focus, engineVars, levels, now>>

\* time passes
Tick ==
  /\ now < MaxNow
  /\ now' = now + 1
  /\ output' = NoOutput
  /\ data' = NoData
  /\ UNCHANGED <<master_tempo, bd, ts, dev, lk, rec>>
  /\ UNCHANGED notifyVars
  /\ UNCHANGED <<last, deck, crossfade, focus, engineVars, audioVars>>

----------------------------------------------------------------------------
(* The processing thread, the output callback and the host's device calls.
   Every step is one critical section of the engine mutex. *)

\* target_queue_samples (line 468): a tenth of a second at the channel count
\* the engine was constructed with
TargetQueueSamples == TenthSecondFrames * DEFAULT_CHANNELS

\* the samples of a chunk as they are queued: the value, the channel count
\* the chunk was laid out for, and whether configure_device has cleared the
\* queue since the chunk was generated
Tagged(samples, ch) ==
  [i \in 1..Len(samples) |-> [v |-> samples[i], ch |-> ch, stale |-> FALSE]]

\* mutant: the thread does not test `running`
PtCheckRunning_Ignore ==
  /\ pt.pc = "loop"
  /\ pt' = [pt EXCEPT !.pc = "read"]
  /\ output' = NoOutput
  /\ data' = NoData
  /\ UNCHANGED <<master_tempo, bd, ts, dev, lk, rec>>
  /\ UNCHANGED notifyVars
  /\ UNCHANGED <<deck, crossfade, last, focus, audioVars, now, channel_config, output_queue, running, host, stream>>

\* lines 476-483
PtCheckRunning ==
  /\ pt.pc = "loop"
  /\ pt' = [pt EXCEPT !.pc = IF running THEN "read" ELSE "exited"]
  /\ output' = NoOutput
  /\ data' = NoData
  /\ UNCHANGED <<master_tempo, bd, ts, dev, lk, rec>>
  /\ UNCHANGED notifyVars
  /\ UNCHANGED <<deck, crossfade, last, focus, audioVars, now, channel_config, output_queue, running, host, stream>>

\* the high-water test (line 494)
BelowHighWater(queue_size) == queue_size < TargetQueueSamples * 2

\* lines 486-494: the queue length and output_channels are read under one lock
PtReadQueue ==
  /\ pt.pc = "read"
  /\ pt' = [pt EXCEPT !.pc = IF BelowHighWater(Len(output_queue)) THEN "process" ELSE "emit",
                      !.current_output_channels = channel_config.output_channels]
  /\ output' = NoOutput
  /\ data' = NoData
  /\ UNCHANGED <<master_tempo, bd, ts, dev, lk, rec>>
  /\ UNCHANGED notifyVars
  /\ UNCHANGED <<deck, crossfade, last, focus, audioVars, now, channel_config, output_queue, running, host, stream>>

\* lines 496-501: process_audio_chunk under the lock, with the channel count
\* read before; a panic in the router ends the thread
PtProcess ==
  /\ pt.pc = "process"
  /\ ProcessAudioChunk(pt.current_output_channels)
  /\ pt' = IF output'.panic
             THEN [pt EXCEPT !.pc = "panicked"]
             ELSE [pt EXCEPT !.pc = "push",
                             !.chunk = Tagged(output'.samples, pt.current_output_channels),
                             !.chunks_after_close = IF running THEN @ ELSE @ + 1]
  /\ UNCHANGED <<focus, channel_config, output_queue, running, host, stream, now>>

\* lines 504-507: the chunk is appended under a second lock
PtPush ==
  /\ pt.pc = "push"
  /\ output_queue' = output_queue \o pt.chunk
  /\ pt' = [pt EXCEPT !.pc = "emit", !.chunk = NoChunk]
  /\ output' = NoOutput
  /\ data' = NoData
  /\ UNCHANGED <<master_tempo, bd, ts, dev, lk, rec>>
  /\ UNCHANGED notifyVars
  /\ UNCHANGED <<deck, crossfade, last, focus, audioVars, now, channel_config, running, host, stream>>

\* what the slice `data` of the output callback holds before it is written
Unwritten == 99

\* mutant: on underrun the callback leaves the rest of the slice as it is
FillFromQueue_StopEmpty(queue, n) ==
  [i \in 1..n |-> IF i <= Len(queue) THEN queue[i].v ELSE Unwritten]

\* the loop of the output callback over a slice of n samples (lines
\* 1076-1078): each sample is pop_front().unwrap_or(0.0)
FillFromQueue(queue, n) ==
  [i \in 1..n |-> IF i <= Len(queue) THEN queue[i].v ELSE 0]

\* lines 510-520: when 33 ms have passed since the last state update, one
\* is created from the state under the lock and handed to the host callback;
\* then the thread sleeps
PtEmit ==
  /\ pt.pc = "emit"
  /\ \/ /\ dispatched' = (dispatched \/ update_reason # NoReason)
        /\ UNCHANGED update_reason
     \/ UNCHANGED notifyVars
  /\ pt' = [pt EXCEPT !.pc = "loop"]
  /\ output' = NoOutput
  /\ data' = NoData
  /\ UNCHANGED <<master_tempo, bd, ts, dev, lk, rec>>
  /\ UNCHANGED <<deck, crossfade, last, focus, audioVars, now, channel_config, output_queue, running, host, stream>>

\* the output callback (lines 1074-1079) asked for `frames` frames
OutputCallback(frames) ==
  /\ stream # NoStream
  /\ data' = FillFromQueue(output_queue, frames * stream)
  /\ UNCHANGED <<master_tempo, bd, ts, dev, lk, rec>>
  /\ UNCHANGED notifyVars
  /\ output_queue' = SubSeq(output_queue, Min(frames * stream, Len(output_queue)) + 1,
                            Len(output_queue))
  /\ output' = NoOutput
  /\ UNCHANGED <<deck, crossfade, last, focus, audioVars, now, channel_config, running, pt, host, stream>>

\* configure_device, lines 536-558: the device is resolved and the old
\* stream paused and dropped
ConfigureDeviceBegin(device_channels, main, cue) ==
  /\ host.pc = "idle"
  /\ stream' = NoStream
  /\ host' = [pc |-> "cfg_state", output_channels |-> device_channels,
              main_channels |-> main, cue_channels |-> cue]
  /\ output' = NoOutput
  /\ data' = NoData
  /\ UNCHANGED <<master_tempo, bd, ts, dev, lk, rec>>
  /\ UNCHANGED notifyVars
  /\ UNCHANGED <<deck, crossfade, last, focus, audioVars, now, channel_config, output_queue, running, pt>>

\* clamp_channel (lines 572-578)
ClampChannel(c, output_channels) ==
  IF c >= 0 /\ AsU16(c) < output_channels THEN AsU16(c) ELSE Disabled

\* main.first() / main.get(1) and_then clamp_channel
ClampedSlot(v, k, output_channels) ==
  IF Len(v) >= k THEN ClampChannel(v[k], output_channels) ELSE Disabled

\* the channel configuration configure_device stores (lines 563-597)
ConfiguredChannels(config, output_channels, main, cue) ==
  [config EXCEPT
     !.output_channels = output_channels,
     !.main_channels =
        IF main.some
          THEN <<ClampedSlot(main.v, 1, output_channels), ClampedSlot(main.v, 2, output_channels)>>
          ELSE <<0, Min(1, SatSub(output_channels, 1))>>,
     !.cue_channels =
        IF cue.some
          THEN <<ClampedSlot(cue.v, 1, output_channels), ClampedSlot(cue.v, 2, output_channels)>>
          ELSE @]

\* configure_device, lines 560-601: the mapping is stored and the queue
\* cleared under the engine lock
ConfigureDeviceState ==
  /\ host.pc = "cfg_state"
  /\ channel_config' = ConfiguredChannels(channel_config, host.output_channels,
                                          host.main_channels, host.cue_channels)
  /\ output_queue' = <<>>
  /\ pt' = [pt EXCEPT !.chunk = [i \in 1..Len(pt.chunk) |-> [pt.chunk[i] EXCEPT !.stale = TRUE]]]
  /\ host' = [host EXCEPT !.pc = "cfg_build"]
  /\ output' = NoOutput
  /\ data' = NoData
  /\ UNCHANGED <<master_tempo, bd, ts, dev, lk, rec>>
  /\ UNCHANGED notifyVars
  /\ UNCHANGED <<deck, crossfade, last, focus, audioVars, now, running, stream>>

\* configure_device, lines 603-639: the new output stream is built and started
ConfigureDeviceBuild ==
  /\ host.pc = "cfg_build"
  /\ stream' = host.output_channels
  /\ host' = HostIdle
  /\ output' = NoOutput
  /\ data' = NoData
  /\ UNCHANGED <<master_tempo, bd, ts, dev, lk, rec>>
  /\ UNCHANGED notifyVars
  /\ UNCHANGED <<deck, crossfade, last, focus, audioVars, now, channel_config, output_queue, running, pt>>

\* Some(c as u16) for c >= 0, None otherwise
SlotOf(c) == IF c >= 0 THEN AsU16(c) ELSE Disabled

\* the largest of the non-negative arguments, 1 when there is none
MaxChannel(cs) ==
  IF \E c \in cs : c >= 0
    THEN CHOOSE m \in cs : m >= 0 /\ \A c \in cs : c <= m
    ELSE 1

\* AudioEngine::set_channel_config
SetChannelConfig(main_left, main_right, cue_left, cue_right) ==
  /\ host.pc = "idle"
  /\ channel_config' =
       [channel_config EXCEPT
          !.main_channels = <<SlotOf(main_left), SlotOf(main_right)>>,
          !.cue_channels = <<SlotOf(cue_left), SlotOf(cue_right)>>,
          !.output_channels =
             AsU16(MaxChannel({main_left, main_right, cue_left, cue_right})) + 1]
  /\ output' = NoOutput
  /\ data' = NoData
  /\ UNCHANGED <<master_tempo, bd, ts, dev, lk, rec>>
  /\ UNCHANGED notifyVars
  /\ UNCHANGED <<deck, crossfade, last, focus, audioVars, now, output_queue, running, pt, host, stream>>

\* AudioEngine::close, lines 1004-1012: the streams are dropped
CloseStreams ==
  /\ host.pc = "idle"
  /\ stream' = NoStream
  /\ host' = [host EXCEPT !.pc = "close_state"]
  /\ output' = NoOutput
  /\ data' = NoData
  /\ UNCHANGED <<master_tempo, bd, ts, dev, lk, rec>>
  /\ UNCHANGED notifyVars
  /\ UNCHANGED <<deck, crossfade, last, focus, audioVars, now, channel_config, output_queue, running, pt>>

\* AudioEngine::close, lines 1014-1019
CloseState ==
  /\ host.pc = "close_state"
  /\ running' = FALSE
  /\ deck' = [d \in Decks |-> [deck[d] EXCEPT !.playing = FALSE]]
  /\ output_queue' = <<>>
  /\ host' = HostIdle
  /\ last' = "close"
  /\ output' = NoOutput
  /\ data' = NoData
  /\ UNCHANGED <<master_tempo, bd, ts, dev, lk, rec>>
  /\ UNCHANGED notifyVars
  /\ UNCHANGED <<crossfade, focus, audioVars, now, channel_config, pt, stream>>

\* channel counts of the devices the host selects
DeviceChannels == {2, 4}
\* main_channels / cue_channels the host passes to configure_device
MainArgs == {NoArg, Arg(<<2, 3>>), Arg(<<1>>)}
CueArgs == {NoArg, Arg(<<2, 3>>)}
\* arguments the host passes to set_channel_config; 65536 wraps to 0 as u16
ChannelTuples == {<<0, 1, -1, -1>>, <<2, 3, 0, 1>>, <<65536, 1, -1, -1>>}
\* frames the output callback is asked for
CallbackFrames == {1, FRAMES_PER_CHUNK}

NextEngine ==
  \/ PtCheckRunning
  \/ PtReadQueue
  \/ PtProcess
  \/ PtPush
  \/ PtEmit
  \/ \E n \in CallbackFrames : OutputCallback(n)
  \/ \E dc \in DeviceChannels, m \in MainArgs, c \in CueArgs : ConfigureDeviceBegin(dc, m, c)
  \/ ConfigureDeviceState
  \/ ConfigureDeviceBuild
  \/ \E t \in ChannelTuples : SetChannelConfig(t[1], t[2], t[3], t[4])
  \/ CloseStreams
  \/ CloseState

InitQueue == InitEngine /\ focus = 1

SpecEngine == InitQueue /\ [][NextEngine]_vars

----------------------------------------------------------------------------
(* The deck transport: every deck operation on one deck (either one, chosen
   at the start), crossfades that start and stop either deck, and processed
   chunks, interleaved in every way. *)

NextDeck ==
  \/ \E pcm \in PcmLens : LoadTrack(focus, pcm, "silence")
  \/ Play(focus)
  \/ \E i \in DeckArgs : Stop(i)
  \/ \E q \in Fractions : Seek(focus, q)
  \/ \E s \in Fractions, e \in Fractions, en \in BOOLEAN : SetLoop(focus, s, e, en)
  \/ \E s \in BeatFrames, e \in BeatFrames : SetBeatLoop(focus, s, e)
  \/ ClearLoop(focus)
  \/ \E t \in {0, PosUnit} : StartCrossfade(t, FRAMES_PER_CHUNK + 1)
  \/ ProcessChunkCtl

InitDeck == InitEngine /\ focus \in Decks

Spec == InitDeck /\ [][NextDeck]_vars

----------------------------------------------------------------------------
(* The crossfader: both decks loaded, played and stopped, the fader moved by
   hand and by auto-crossfades of every duration, interleaved in every way
   with processed chunks. *)

NextXf ==
  \/ \E i \in DeckArgs : LoadTrack(i, 2 * MaxTrackFrames, "silence")
  \/ \E i \in DeckArgs : Play(i)
  \/ \E i \in DeckArgs : Stop(i)
  \/ \E p \in FaderInputs : SetCrossfaderPosition(p)
  \/ \E t \in FaderInputs \cup {NoTarget}, f \in DurationFrames : StartCrossfade(t, f)
  \/ ProcessChunkCtl

InitXf == InitEngine /\ focus = 1

SpecXf == InitXf /\ [][NextXf]_vars

----------------------------------------------------------------------------------------------------------------------------------------------------------------------------------------------------
(* The mixer: the deck in focus plays audio while the host moves the fader,
   the gains, the cue switches, the channel mapping and the microphone. *)

\* gains and levels the host passes: zero and above the range
GainInputs == {0, 2 * SampleUnit + 1}
\* samples the input device delivers
MicSamples == {2 * SampleUnit}

NextMix ==
  \/ LoadTrack(focus, DEFAULT_CHANNELS * (FRAMES_PER_CHUNK + 1), "audio")
  \/ Play(focus)
  \/ \E g \in GainInputs : SetDeckGain(focus, g)
  \/ SetCrossfaderPosition(PosUnit)
  \/ \E b \in BOOLEAN : SetDeckCueEnabled(focus, b)
  \/ \E t \in ChannelTuples : SetChannelConfig(t[1], t[2], t[3], t[4])
  \/ \E b \in BOOLEAN : SetMicEnabled(b)
  \/ SetMicGain(2 * SampleUnit + 1)
  \/ SetTalkoverDucking(0)
  \/ \E x \in MicSamples : InputCallback(x, InputTenthSecondFrames)
  \/ ProcessChunkCtl

InitMix == InitEngine /\ focus \in Decks

SpecMix == InitMix /\ [][NextMix]_vars

----------------------------------------------------------------------------
(* The microphone ring buffer: input callbacks of every size with samples
   that can be told apart, chunks and the microphone switch. *)

\* frames the input device delivers in one callback: one, and more than the
\* ring buffer holds
InputFrames == {1, InputTenthSecondFrames + 1}
\* samples of the input device
RingSamples == {SampleUnit, 2 * SampleUnit}

NextMic ==
  \/ \E b \in BOOLEAN : SetMicEnabled(b)
  \/ \E x \in RingSamples, n \in InputFrames : InputCallback(x, n)
  \/ ProcessChunkCtl

SpecMic == InitQueue /\ [][NextMic]_vars

----------------------------------------------------------------------------
(* The level meter: the deck in focus plays audio at changing gains while
   time passes. *)

NextMeter ==
  \/ LoadTrack(focus, 2 * MaxTrackFrames, "audio")
  \/ Play(focus)
  \/ \E g \in {0, SampleUnit} : SetDeckGain(focus, g)
  \/ Tick
  \/ ProcessChunkCtl

InitMeter == InitEngine /\ focus \in Decks

SpecMeter == InitMeter /\ [][NextMeter]_vars

----------------------------------------------------------------------------
(* The output path: deck A plays audio, the processing thread queues the
   chunks and the output callback of a two-channel stream drains the queue. *)

NextCallback ==
  \/ LoadTrack(focus, 2 * MaxTrackFrames, "audio")
  \/ Play(focus)
  \/ PtCheckRunning
  \/ PtReadQueue
  \/ PtProcess
  \/ PtPush
  \/ PtEmit
  \/ ConfigureDeviceBegin(DEFAULT_CHANNELS, NoArg, NoArg)
  \/ ConfigureDeviceState
  \/ ConfigureDeviceBuild
  \/ \E n \in CallbackFrames : OutputCallback(n)

SpecCallback == InitQueue /\ [][NextCallback]_vars

----------------------------------------------------------------------------
(* Seeking: tracks with an odd and an even number of frames are loaded on
   the decks, played and sought while chunks are processed. *)

\* pcm lengths in samples: an odd and an even number of frames
SeekPcmLens == {2 * MaxTrackFrames - 2, 2 * MaxTrackFrames}

NextSeek ==
  \/ \E i \in DeckArgs, pcm \in SeekPcmLens : LoadTrack(i, pcm, "silence")
  \/ \E i \in DeckArgs : Play(i)
  \/ \E i \in DeckArgs, q \in Fractions : Seek(i, q)
  \/ ProcessChunkCtl

SpecSeek == InitQueue /\ [][NextSeek]_vars

----------------------------------------------------------------------------
(* Tempo: tracks with and without a BPM are loaded on the decks and the
   master tempo is set, in every order. *)

\* BPM values of the tracks: none, zero, and values a half, a quarter and
\* more than twice the default master tempo
BpmInputs == {NoBpm, SomeBpm(0), SomeBpm(65), SomeBpm(MasterTempoDefault), SomeBpm(MaxTempo)}
\* arguments of set_master_tempo: below, inside and above the range, and a NaN
TempoInputs == {-1, 0, 65, MaxTempo, MaxTempo + 1, NaN}

NextTempo ==
  \/ \E i \in DeckArgs, b \in BpmInputs : LoadTrackBpm(i, 2 * MaxTrackFrames, b, "silence")
  \/ \E t \in TempoInputs : SetMasterTempo(t)

SpecTempo == InitQueue /\ [][NextTempo]_vars

----------------------------------------------------------------------------
(* Deck indices: every per-deck operation is called with indices other than
   1, while deck A is loaded, played and turned down through index 1. *)

\* deck arguments other than 1: 0, 2, and values above 2
OtherIndices == {0, 2, 2147483647}
\* band arguments of set_eq_cut, one of them unknown
BandArgs == {"low", "mid", "bass"}

NextIndex ==
  \/ LoadTrack(1, 2 * MaxTrackFrames, "silence")
  \/ Play(1)
  \/ SetDeckGain(1, 0)
  \/ \E i \in OtherIndices : LoadTrack(i, 2 * MaxTrackFrames, "silence")
  \/ \E i \in OtherIndices : Play(i)
  \/ \E i \in OtherIndices : Stop(i)
  \/ \E i \in OtherIndices : Seek(i, <<1, 2>>)
  \/ \E i \in OtherIndices : SetDeckGain(i, 0)
  \/ \E i \in OtherIndices, b \in BandArgs, en \in BOOLEAN : SetEqCut(i, b, en)
  \/ \E i \in OtherIndices, en \in BOOLEAN : SetDeckCueEnabled(i, en)
  \/ \E i \in OtherIndices : SetLoop(i, <<-1, 1>>, <<1, 2>>, TRUE)
  \/ \E i \in OtherIndices : SetBeatLoop(i, 1, MaxTrackFrames + 1)
  \/ \E i \in OtherIndices : ClearLoop(i)

SpecIndex == InitQueue /\ [][NextIndex]_vars

----------------------------------------------------------------------------
(* configure_device and close statement by statement, with the streams of
   both kinds, the failures of the device and the callbacks of the streams
   that are alive. *)

DevRest == <<deck, crossfade, last, focus, host, levels, now, update_reason,
             master_tempo, dispatched, bd, ts, lk, rec>>

\* configure_device, lines 536-545: the device is resolved and asked for its
\* output configuration; either can fail
DeviceResolve(found, device_channels, main, cue) ==
  /\ dev.pc = "idle"
  /\ dev' = IF found
              THEN [dev EXCEPT !.pc = "drop", !.output_channels = device_channels,
                               !.main_channels = main, !.cue_channels = cue,
                               !.result = "none", !.changed = FALSE]
              ELSE [dev EXCEPT !.result = "err", !.changed = FALSE]
  /\ output' = NoOutput
  /\ data' = NoData
  /\ UNCHANGED <<DevRest, stream, channel_config, output_queue, running, pt, microphone>>

\* lines 547-558: the old output stream is paused and dropped
DeviceDropOutput ==
  /\ dev.pc = "drop"
  /\ stream' = NoStream
  /\ dev' = [dev EXCEPT !.pc = "state", !.live_outputs = 0,
                        !.changed = @ \/ stream # NoStream]
  /\ output' = NoOutput
  /\ data' = NoData
  /\ UNCHANGED <<DevRest, channel_config, output_queue, running, pt, microphone>>

\* lines 560-601: the mapping is stored and the queue cleared under the
\* engine lock
DeviceState ==
  /\ dev.pc = "state"
  /\ channel_config' = ConfiguredChannels(channel_config, dev.output_channels,
                                          dev.main_channels, dev.cue_channels)
  /\ output_queue' = <<>>
  /\ pt' = [pt EXCEPT !.chunk = [i \in 1..Len(pt.chunk) |-> [pt.chunk[i] EXCEPT !.stale = TRUE]]]
  /\ dev' = [dev EXCEPT !.pc = "build_output",
                        !.changed = @ \/ channel_config' # channel_config
                                      \/ output_queue # <<>>]
  /\ output' = NoOutput
  /\ data' = NoData
  /\ UNCHANGED <<DevRest, stream, running, microphone>>

\* lines 603-610: build_output_stream builds and starts the new stream, or
\* fails and configure_device returns the error; the stream is stored
DeviceBuildOutput(built) ==
  /\ dev.pc = "build_output"
  /\ IF built
       THEN /\ stream' = dev.output_channels
            /\ dev' = [dev EXCEPT !.pc = "build_input", !.live_outputs = @ + 1,
                                  !.changed = TRUE]
       ELSE /\ UNCHANGED stream
            /\ dev' = [dev EXCEPT !.pc = "idle", !.result = "err"]
  /\ output' = NoOutput
  /\ data' = NoData
  /\ UNCHANGED <<DevRest, channel_config, output_queue, running, pt, microphone>>

\* line 613: build_input_stream builds and starts an input stream, or
\* returns None
DeviceBuildInput(built) ==
  /\ dev.pc = "build_input"
  /\ dev' = [dev EXCEPT !.pc = "set_input", !.new_input_stream = built,
                        !.live_inputs = IF built THEN @ + 1 ELSE @]
  /\ output' = NoOutput
  /\ data' = NoData
  /\ UNCHANGED <<DevRest, stream, channel_config, output_queue, running, pt, microphone>>

\* lines 618-622: the new input stream is stored, which drops the old one
DeviceSetInput ==
  /\ dev.pc = "set_input"
  /\ dev' = [dev EXCEPT !.pc = "finish", !.input_stream = dev.new_input_stream,
                        !.new_input_stream = FALSE,
                        !.live_inputs = IF dev.input_stream THEN @ - 1 ELSE @]
  /\ output' = NoOutput
  /\ data' = NoData
  /\ UNCHANGED <<DevRest, stream, channel_config, output_queue, running, pt, microphone>>

\* lines 624-639: the flags are stored under the engine lock and
\* configure_device returns Ok
DeviceFinish ==
  /\ dev.pc = "finish"
  /\ dev' = [dev EXCEPT !.pc = "idle", !.result = "ok"]
  /\ output' = NoOutput
  /\ data' = NoData
  /\ UNCHANGED <<DevRest, stream, channel_config, output_queue, running, pt, microphone>>

\* the input callback of a stream that is alive
DeviceInputCallback(sample, frames) ==
  /\ dev.live_inputs > 0
  /\ InputCallback(sample, frames)

NextDevice ==
  \/ \E found \in BOOLEAN, dc \in DeviceChannels, m \in {NoArg, Arg(<<2, 3>>)} :
       DeviceResolve(found, dc, m, NoArg)
  \/ DeviceDropOutput
  \/ DeviceState
  \/ \E built \in BOOLEAN : DeviceBuildOutput(built)
  \/ \E built \in BOOLEAN : DeviceBuildInput(built)
  \/ DeviceSetInput
  \/ DeviceFinish
  \/ DeviceInputCallback(SampleUnit, 1)
  \/ OutputCallback(FRAMES_PER_CHUNK)
  \/ PtCheckRunning
  \/ PtReadQueue
  \/ PtProcess
  \/ PtPush
  \/ PtEmit

SpecDevice == InitQueue /\ [][NextDevice]_vars

----------------------------------------------------------------------------
(* The time stretcher on its own: calls of process at every position of
   tracks of every length, with every reservoir and every yield. *)

\* positions of a deck in its track, the end included
TsPositions(pcm) == 0..TotalFrames(pcm)
\* frames a call can find in the reservoir: fewer than the loop's target
\* plus what the last feed can bring
TsReservoirs == 0..(FRAMES_PER_CHUNK + 2 * FEED_FRAMES)

NextStretch ==
  \/ \E pcm \in 0..(2 * MaxTrackFrames) : \E position \in TsPositions(pcm),
         reservoir \in TsReservoirs : TsProcess(pcm, position, reservoir)
  \/ \E received \in Yields(FEED_FRAMES) : TsFeed(received)
  \/ TsCopy

\* the loop and the code after it run on
SpecStretch ==
  /\ InitQueue
  /\ [][NextStretch]_vars
  /\ WF_vars(\E received \in Yields(FEED_FRAMES) : TsFeed(received))
  /\ WF_vars(TsCopy)

----------------------------------------------------------------------------
(* One deck's stretcher while a track plays through: load_track clears the
   stretcher (line 665), every chunk calls process at the position the last
   call left (lines 1195-1204) with the reservoir the last call left, until
   the position reaches the end of the track (line 1210). *)

\* the first chunk of a track played from its start
TsPlay(pcm) == TsProcess(pcm, 0, 0)

\* line 1204 and the next chunk's call; the track has not ended
TsNextChunk ==
  /\ ts.pc = "done"
  /\ ts.position + ts.frames_fed < TotalFrames(ts.pcm)
  /\ TsProcess(ts.pcm, ts.position + ts.frames_fed, Len(ts.reservoir))

\* what a feed brings at tempo 1.0: nothing yet, or as much as was fed
YieldsAtRateOne == {0, FEED_FRAMES}

\* tracks of up to four chunks, in samples
PlayPcmLens == 0..(4 * MaxTrackFrames)

NextPlay ==
  \/ \E pcm \in PlayPcmLens : TsPlay(pcm)
  \/ TsNextChunk
  \/ \E received \in YieldsAtRateOne : TsFeed(received)
  \/ TsCopy

SpecPlay == InitQueue /\ [][NextPlay]_vars

----------------------------------------------------------------------------
(* The beat detector.  BPM values are fixed-point numbers of BpmUnit to the
   BPM (an eighth of a hundredth), ODF rates are in hundredths of a frame per
   second and confidences in thousandths.  Times are f32 seconds, kept as
   whole numbers of ticks of 2^-25 s with the 24-bit significand of f32: a
   time of 0.25 s or more is a multiple of its unit in the last place.  The
   five onset detection functions are not computed: what they and the
   autocorrelation leave open is the lag of the strongest correlation. *)

TicksPerSec == 2^25
\* the unit in the last place of an f32 of x ticks (one tick below 0.5 s)
RECURSIVE Ulp(_)
Ulp(x) == IF x < TicksPerSec \div 2 THEN 1 ELSE 2 * Ulp(x \div 2)
\* x rounded to the nearest f32, ties to even
Fl(x) ==
  LET u == Ulp(x)
      q == x \div u
      r == x % u
  IN IF 2 * r < u \/ (2 * r = u /\ q % 2 = 0) THEN q * u ELSE (q + 1) * u

BpmUnit == 100 * 8
\* f32 infinity, the quotient 60.0 / 0.0 of a lag of 0
Infinity == 2000000000
FOLD_MIN == 80 * BpmUnit
FOLD_MAX == 170 * BpmUnit

\* the frames of the onset detection functions (frame_size 2048, hop 512)
OdfLen(samples) == (IF samples > 2048 THEN samples - 2048 ELSE 0) \div 512
\* sample_rate / hop_size
OdfRate(sample_rate) == (sample_rate * 100) \div 512
\* (60.0 / max_bpm * odf_sr) as usize and (60.0 / min_bpm * odf_sr) as usize
\* capped at odf.len() / 2
MinLag(odf_sr) == (60 * odf_sr) \div (200 * 100)
MaxLag(odf_sr, odf_len) == Min((60 * odf_sr) \div (60 * 100), odf_len \div 2)
\* 60.0 / (lag as f32 / odf_sr)
LagBpm(lag, odf_sr) == IF lag = 0 THEN Infinity ELSE (60 * odf_sr * 8) \div lag

\* f32 halving and doubling: infinity stays infinity
Halve(bpm) == IF bpm = Infinity THEN Infinity ELSE bpm \div 2
Double(bpm) == IF bpm = Infinity THEN Infinity ELSE bpm * 2

\* the two loops of estimate_tempo_from_odf that bring the strongest peak
\* towards 80-160 BPM (lines 452-457)
RECURSIVE AdjustUp(_)
AdjustUp(bpm) ==
  IF bpm < 80 * BpmUnit /\ bpm > 30 * BpmUnit THEN AdjustUp(Double(bpm)) ELSE bpm
RECURSIVE AdjustDown(_)
AdjustDown(bpm) ==
  IF bpm > 160 * BpmUnit /\ bpm < 300 * BpmUnit THEN AdjustDown(Halve(bpm)) ELSE bpm

\* estimate_tempo_from_odf: the tempos it can return, {} when it returns
\* None.  Without a peak the strongest correlation of any lag is taken as
\* it is; a peak, which is never at the first or the last lag, is taken as
\* it is inside 80-160 BPM and adjusted otherwise.
EstimateTempoFromOdf(odf_sr, odf_len) ==
  LET min_lag == MinLag(odf_sr)
      max_lag == MaxLag(odf_sr, odf_len)
  IN IF min_lag >= max_lag
       THEN {}
       ELSE {LagBpm(lag, odf_sr) : lag \in min_lag..max_lag}
              \cup {AdjustDown(AdjustUp(LagBpm(lag, odf_sr))) :
                      lag \in (min_lag + 1)..(max_lag - 1)}

\* (refined_bpm * 100.0).round() / 100.0
RoundBpm(bpm) == ((bpm + 4) \div 8) * 8
\* 60.0 / refined_bpm
BeatInterval(bpm) ==
  LET quarter == 15 * TicksPerSec
  IN Fl((quarter \div bpm) * (4 * BpmUnit) + ((quarter % bpm) * (4 * BpmUnit)) \div bpm)

\* find_optimal_first_beat, from the bin the phase voting picked
NUM_BINS == 100
BestPhase(max_bin, beat_interval) ==
  (beat_interval \div (2 * NUM_BINS)) * (2 * max_bin + 1)
    + ((beat_interval % (2 * NUM_BINS)) * (2 * max_bin + 1)) \div (2 * NUM_BINS)
FirstBeat(max_bin, beat_interval) ==
  LET best_phase == BestPhase(max_bin, beat_interval)
  IN Max(IF 2 * best_phase < beat_interval THEN best_phase
                                           ELSE best_phase - beat_interval,
         0)

\* mutant: every position is the first beat plus a whole number of exact
\* intervals
RECURSIVE GenerateBeatGrid_Exact(_, _, _)
GenerateBeatGrid_Exact(pos, beat_interval, duration) ==
  IF pos < duration
    THEN (IF pos >= 0 THEN <<pos>> ELSE <<>>)
           \o GenerateBeatGrid_Exact(pos + beat_interval, beat_interval, duration)
    ELSE <<>>

\* generate_beat_grid: from first_beat on while the position is below the
\* duration, keeping the positions that are not negative; `pos +=
\* beat_interval` rounds every sum to an f32
RECURSIVE GenerateBeatGrid(_, _, _)
GenerateBeatGrid(pos, beat_interval, duration) ==
  IF pos < duration
    THEN (IF pos >= 0 THEN <<pos>> ELSE <<>>)
           \o GenerateBeatGrid(Fl(pos + beat_interval), beat_interval, duration)
    ELSE <<>>

\* calculate_grid_confidence, tolerance 0.05 s
Tolerance == TicksPerSec \div 20
MinDist(detected, grid_beats) ==
  CHOOSE m \in {Abs(detected - grid_beats[k]) : k \in 1..Len(grid_beats)} :
    \A k \in 1..Len(grid_beats) : m <= Abs(detected - grid_beats[k])
RECURSIVE TotalError(_, _, _)
TotalError(detected_beats, grid_beats, n) ==
  IF n = 0 THEN 0
  ELSE TotalError(detected_beats, grid_beats, n - 1)
         + (LET min_dist == MinDist(detected_beats[n], grid_beats)
            IN IF min_dist < Tolerance THEN (min_dist * 1000) \div Tolerance ELSE 1000)
CalculateGridConfidence(detected_beats, grid_beats) ==
  IF Len(detected_beats) = 0 \/ Len(grid_beats) = 0
    THEN 0
    ELSE LET avg_error == TotalError(detected_beats, grid_beats, Len(detected_beats))
                            \div Len(detected_beats)
         IN (Max(1000 - avg_error, 0) * 532) \div 100

\* BeatDetector::detect up to the tempo estimate (lines 35-86) on `seconds`
\* seconds of audio
BdDetect(sample_rate, seconds) ==
  /\ bd.pc \in {"idle", "done", "none"}
  /\ LET samples == sample_rate * seconds
         estimates == EstimateTempoFromOdf(OdfRate(sample_rate), OdfLen(samples))
     IN IF samples < sample_rate * 2 \/ OdfLen(samples) = 0 \/ estimates = {}
          THEN bd' = [BdIdle EXCEPT !.pc = "none", !.sample_rate = sample_rate,
                                    !.duration = seconds * TicksPerSec]
          ELSE \E bpm \in estimates :
                 bd' = [BdIdle EXCEPT !.pc = "double", !.sample_rate = sample_rate,
                                      !.duration = seconds * TicksPerSec, !.bpm = bpm]
  /\ UNCHANGED <<engineState, ts, dev, lk, rec>>

\* one turn of `while refined_bpm < 80.0 { refined_bpm *= 2.0 }`
BdDouble ==
  /\ bd.pc = "double"
  /\ bd' = IF bd.bpm < FOLD_MIN THEN [bd EXCEPT !.bpm = Double(bd.bpm)]
                                ELSE [bd EXCEPT !.pc = "halve"]
  /\ UNCHANGED <<engineState, ts, dev, lk, rec>>

\* one turn of `while refined_bpm > 170.0 { refined_bpm /= 2.0 }`
BdHalve ==
  /\ bd.pc = "halve"
  /\ bd' = IF bd.bpm > FOLD_MAX THEN [bd EXCEPT !.bpm = Halve(bd.bpm)]
                                ELSE [bd EXCEPT !.pc = "round"]
  /\ UNCHANGED <<engineState, ts, dev, lk, rec>>

\* the BPM rounded to two decimals (line 97)
BdRound ==
  /\ bd.pc = "round"
  /\ bd' = [bd EXCEPT !.bpm = RoundBpm(bd.bpm), !.pc = "track"]
  /\ UNCHANGED <<engineState, ts, dev, lk, rec>>

\* the rest of detect (lines 99-125): dp_beat_tracking returned
\* detected_beats and the phase voting picked max_bin
BdTrack(detected_beats, max_bin) ==
  /\ bd.pc = "track"
  /\ IF Len(detected_beats) = 0
       THEN bd' = [bd EXCEPT !.pc = "none"]
       ELSE LET beat_interval == BeatInterval(bd.bpm)
                first_beat == FirstBeat(max_bin, beat_interval)
                beats == GenerateBeatGrid(first_beat, beat_interval, bd.duration)
            IN bd' = [bd EXCEPT !.pc = "done", !.beats = beats,
                                !.best_phase = BestPhase(max_bin, beat_interval),
                                !.confidence = CalculateGridConfidence(detected_beats, beats)]
  /\ UNCHANGED <<engineState, ts, dev, lk, rec>>

\* sample rates: the engine's, and one low enough for a lag of 0
SampleRates == {44100, 1000}
\* lengths of audio in seconds: too short, and long enough at both rates
AudioSeconds == {1, 5}
\* what dp_beat_tracking can return, in milliseconds: nothing, beats on a grid
\* of 500 ms, beats near one, beats off any grid
TicksPerMilli == TicksPerSec \div 1000
DetectedBeats ==
  {[k \in DOMAIN ms |-> ms[k] * TicksPerMilli] :
     ms \in {<<>>, <<2, 502, 1002>>, <<20, 540>>, <<300, 1200>>}}
\* bins the phase voting can pick
MaxBins == {0, 49, 50, NUM_BINS - 1}

NextBeat ==
  \/ \E sr \in SampleRates, sec \in AudioSeconds : BdDetect(sr, sec)
  \/ BdDouble
  \/ BdHalve
  \/ BdRound
  \/ \E d \in DetectedBeats, b \in MaxBins : BdTrack(d, b)

\* the loops and the straight-line code of detect run on
SpecBeat ==
  /\ InitQueue
  /\ [][NextBeat]_vars
  /\ WF_vars(BdDouble) /\ WF_vars(BdHalve) /\ WF_vars(BdRound)
  /\ WF_vars(\E d \in DetectedBeats, b \in MaxBins : BdTrack(d, b))

----------------------------------------------------------------------------
(* Channel routing: deck A plays a one-chunk track and deck B a longer one
   while the host moves the fader to deck B's side, turns deck A's gain down,
   switches the cues on and changes the channel mapping. *)

\* arguments of set_channel_config: no channel at all, a main and a cue
\* pair, a main pair and one cue side
RouteTuples == {<<-1, -1, -1, -1>>, <<2, 3, 0, 1>>, <<1, 2, 0, -1>>}

NextRoute ==
  \/ LoadTrack(1, DEFAULT_CHANNELS * FRAMES_PER_CHUNK, "audio")
  \/ LoadTrack(2, DEFAULT_CHANNELS * (FRAMES_PER_CHUNK + 1), "audio")
  \/ \E i \in DeckArgs : Play(i)
  \/ SetDeckGain(focus, 0)
  \/ SetCrossfaderPosition(PosUnit)
  \/ \E i \in DeckArgs : SetDeckCueEnabled(i, TRUE)
  \/ \E t \in RouteTuples : SetChannelConfig(t[1], t[2], t[3], t[4])
  \/ ProcessChunkCtl

SpecRoute == InitQueue /\ [][NextRoute]_vars

----------------------------------------------------------------------------
(* Beat loops: deck A is loaded, played, sought and given beat loops of
   every kind while chunks are processed. *)

NextBeatLoop ==
  \/ \E pcm \in PcmLens : LoadTrack(focus, pcm, "silence")
  \/ Play(focus)
  \/ \E q \in Fractions : Seek(focus, q)
  \/ \E s \in BeatFrames, e \in BeatFrames : SetBeatLoop(focus, s, e)
  \/ ProcessChunkCtl

SpecBeatLoop == InitQueue /\ [][NextBeatLoop]_vars

----------------------------------------------------------------------------
(* The equaliser: the deck in focus plays audio while the host switches the
   three band cuts and chunks are processed. *)

NextEq ==
  \/ LoadTrack(focus, 2 * MaxTrackFrames, "audio")
  \/ Play(focus)
  \/ \E b \in Bands, en \in BOOLEAN : SetEqCut(focus, b, en)
  \/ ProcessChunkCtl

SpecEq == InitDeck /\ [][NextEq]_vars

----------------------------------------------------------------------------
(* State updates: the host loads, plays, stops and seeks deck A while the
   processing thread generates chunks and hands state updates to the host
   callback, and the output callback drains the queue. *)

NextNotify ==
  \/ LoadTrack(focus, 2 * MaxTrackFrames, "silence")
  \/ Play(focus)
  \/ Stop(focus)
  \/ \E q \in Fractions : Seek(focus, q)
  \/ PtCheckRunning
  \/ PtReadQueue
  \/ PtProcess
  \/ PtPush
  \/ PtEmit
  \/ ConfigureDeviceBegin(DEFAULT_CHANNELS, NoArg, NoArg)
  \/ ConfigureDeviceState
  \/ ConfigureDeviceBuild
  \/ OutputCallback(FRAMES_PER_CHUNK)

SpecNotify == InitQueue /\ [][NextNotify]_vars

----------------------------------------------------------------------------
(* Shutdown: the host opens devices, remaps the channels and closes the
   engine while the processing thread keeps running: each step of its loop
   is taken once it is due (the sleep is finite and the engine lock is held
   only briefly by the other threads). *)

NextClose ==
  \/ PtCheckRunning
  \/ PtReadQueue
  \/ PtProcess
  \/ PtPush
  \/ PtEmit
  \/ OutputCallback(FRAMES_PER_CHUNK)
  \/ \E dc \in DeviceChannels : ConfigureDeviceBegin(dc, NoArg, NoArg)
  \/ ConfigureDeviceState
  \/ ConfigureDeviceBuild
  \/ SetChannelConfig(65536, 1, -1, -1)
  \/ CloseStreams
  \/ CloseState

SpecClose ==
  /\ InitQueue
  /\ [][NextClose]_vars
  /\ WF_vars(PtCheckRunning)
  /\ WF_vars(PtReadQueue)
  /\ WF_vars(PtProcess)
  /\ WF_vars(PtPush)
  /\ WF_vars(PtEmit)

----------------------------------------------------------------------------
(* Claims about the deck transport (under Spec) *)

\* C1: in every reachable state a deck that has PCM loaded has
\* 0 <= position <= total_frames.
C1_PositionInTrack ==
  \A d \in Decks :
    deck[d].pcm # NoPcm =>
      /\ 0 <= deck[d].position
      /\ deck[d].position <= TotalFrames(deck[d].pcm)

\* C1 witness: a chunk has moved a playing deck forward inside its track.
C1_Witness ==
  /\ last = "chunk"
  /\ \E d \in Decks :
       /\ deck[d].playing
       /\ deck[d].pcm # NoPcm
       /\ deck[d].position > 0
       /\ deck[d].position < TotalFrames(deck[d].pcm)

InLoop(dk) == dk.loop_start <= dk.position /\ dk.position < dk.loop_end

\* C2 as claimed: after each processed chunk a deck that is playing with
\* loop_enabled has its position in [loop_start, loop_end), wherever the
\* position was when the loop was enabled.
C2_LoopLawAsClaimed ==
  last = "chunk" =>
    \A d \in Decks : (deck[d].playing /\ deck[d].loop_enabled) => InLoop(deck[d])

\* C2 amended: a deck that is playing with loop_enabled and whose position is
\* at or past loop_start when a chunk starts has, after the chunk, its
\* position in [loop_start, loop_end), or has run into the end of the track
\* (position reset to 0), which only a loop end beyond the track allows.
C2_LoopLaw ==
  [][last' = "chunk" =>
       \A d \in Decks :
         (deck[d].playing /\ deck[d].pcm # NoPcm /\ deck[d].loop_enabled
            /\ deck[d].position >= deck[d].loop_start)
         => \/ InLoop(deck'[d])
            \/ /\ deck'[d].position = 0
               /\ deck[d].loop_end > TotalFrames(deck[d].pcm)]_vars

\* C2 witness: a chunk has wrapped a playing deck back to the start of a loop
\* that does not begin at frame 0.
C2_Witness ==
  /\ last = "chunk"
  /\ \E d \in Decks :
       /\ deck[d].playing
       /\ deck[d].loop_enabled
       /\ deck[d].loop_start > 0
       /\ deck[d].position = deck[d].loop_start
       /\ deck[d].reservoir = 0

----------------------------------------------------------------------------
(* Claims about the auto-crossfade (under SpecXf) *)

\* C3 as claimed: every auto-crossfade terminates: after a processed chunk, a
\* crossfade whose remaining_frames is zero is inactive.
C3_CrossfadeTerminates ==
  (last = "chunk" /\ crossfade.remaining_frames = 0) => ~crossfade.active

\* C4: the chunk that brings remaining_frames of an active crossfade to zero
\* sets position to target_position, clears active and direction, and stops
\* the source deck and plays the target deck of the direction.
C4_CompletionSnaps ==
  [][(last' = "chunk" /\ crossfade.active /\ crossfade.remaining_frames > 0
        /\ crossfade'.remaining_frames = 0)
     => /\ crossfade'.position = crossfade.target_position
        /\ ~crossfade'.active
        /\ crossfade'.direction = "None"
        /\ crossfade.direction = "AtoB" => (~deck'[1].playing /\ deck'[2].playing)
        /\ crossfade.direction = "BtoA" => (~deck'[2].playing /\ deck'[1].playing)]_vars

\* C4 witness: a chunk has completed a crossfade from A to B that moved the
\* fader: the fader is at the target, deck A stopped, deck B playing.
C4_Witness ==
  /\ last = "chunk"
  /\ ~crossfade.active
  /\ crossfade.total_frames > 0
  /\ crossfade.remaining_frames = 0
  /\ crossfade.start_position < crossfade.target_position
  /\ crossfade.position = crossfade.target_position
  /\ ~deck[1].playing
  /\ deck[2].playing

\* C5: right after stop the crossfade is inactive with no direction and no
\* remaining frames; and a chunk processed while the crossfade is inactive
\* leaves the crossfade (its position included) as it was and changes each
\* deck only as the deck's own processing does: it starts no deck, and stops
\* one only at the end of its track.
C5_StopCancels ==
  [][/\ last' = "stop" =>
          /\ ~crossfade'.active
          /\ crossfade'.direction = "None"
          /\ crossfade'.remaining_frames = 0
     /\ (last' = "chunk" /\ ~crossfade.active) =>
          /\ crossfade' = crossfade
          /\ \A d \in Decks :
               /\ deck'[d].playing => deck[d].playing
               /\ (deck[d].playing /\ ~deck'[d].playing) =>
                    (deck[d].pcm # NoPcm /\ deck'[d].position = 0)]_vars

\* C5 witness: stop has cancelled a crossfade in mid-fade: the fader rests
\* between the start and the target of the cancelled crossfade.
C5_Witness ==
  /\ last = "stop"
  /\ ~crossfade.active
  /\ crossfade.total_frames > 0
  /\ crossfade.start_position < crossfade.position
  /\ crossfade.position < crossfade.target_position

----------------------------------------------------------------------------
(* Claims about the chunk's audio (under SpecMix) *)

C7_WitnessFastPath ==
  /\ output # NoOutput
  /\ ~output.panic
  /\ output.output_channels = DEFAULT_CHANNELS
  /\ channel_config.cue_channels = <<Disabled, Disabled>>
  /\ ~channel_config.deck_a_cue /\ ~channel_config.deck_b_cue
  /\ output.samples[1] = SampleUnit

----------------------------------------------------------------------------
(* Claims about the level meter (under SpecMeter) *)

C11_DecayRate ==
  [][(output' # NoOutput /\ now > levels.updated) =>
       \A d \in Decks :
         ((levels.updated - levels.peak_hold_time[d]) * TickMillis > HOLD_DURATION
            /\ levels'.peak[d] <= levels.peak_hold[d])
         => /\ levels'.peak_hold[d] <= levels.peak_hold[d]
            /\ levels'.peak_hold[d] >=
                 Attenuate(levels.peak_hold[d],
                           DECAY_RATE * (now - levels.updated) * TickMillis)]_vars

----------------------------------------------------------------------------
(* Claims about the sample queue and the channel mapping (under SpecEngine) *)

\* C6 as claimed: in every reachable state the queue holds at most the
\* high-water mark (2 x target_queue_samples) plus one chunk
\* (FRAMES_PER_CHUNK x output_channels) of samples.
C6_QueueBound ==
  Len(output_queue) <=
    2 * TargetQueueSamples + FRAMES_PER_CHUNK * channel_config.output_channels

InRange(slot, output_channels) == slot = Disabled \/ slot < output_channels

\* C8 as claimed: in every reachable state each of the four mapping slots is
\* disabled or a channel index below channel_config.output_channels.
C8_SlotsInRange ==
  \A k \in 1..2 :
    /\ InRange(channel_config.main_channels[k], channel_config.output_channels)
    /\ InRange(channel_config.cue_channels[k], channel_config.output_channels)

\* C9 as claimed: no sample of a chunk generated before configure_device
\* cleared the queue is ever in the queue after the clear.
C9_NoStaleChunk ==
  \A i \in 1..Len(output_queue) : ~output_queue[i].stale

\* C28 as claimed: while an output stream is open, every sample in the queue
\* belongs to a chunk that was laid out for the channel count of that stream.
C28_QueueLayout ==
  stream # NoStream =>
    \A i \in 1..Len(output_queue) : output_queue[i].ch = stream

\* C32 as claimed: when the processing thread is about to call
\* process_audio_chunk, the channel count it passes is the
\* channel_config.output_channels of the state the call processes.
C32_ChunkChannelsCurrent ==
  pt.pc = "process" => pt.current_output_channels = channel_config.output_channels

----------------------------------------------------------------------------
(* Claims about the output callback (under SpecCallback) *)

\* C12: the output callback writes every sample of the slice it is given:
\* the samples at the head of the queue in queue order, each removed from the
\* queue as it is delivered, and 0.0 for every sample past the end of the
\* queue; and it can run whenever a stream is open, whatever the queue holds.
C12_CallbackFills ==
  /\ [][data' # NoData =>
          LET n == Len(data')
              k == Min(n, Len(output_queue))
          IN /\ n \in {f * stream : f \in CallbackFrames}
             /\ \A i \in 1..k : data'[i] = output_queue[i].v
             /\ \A i \in (k + 1)..n : data'[i] = 0
             /\ output_queue' = SubSeq(output_queue, k + 1, Len(output_queue))]_vars
  /\ [](stream # NoStream => ENABLED (\E n \in CallbackFrames : OutputCallback(n)))

\* C12 witness: a callback ran the queue dry in mid-slice: it delivered
\* queued audio first and silence for the rest.
C12_Witness ==
  /\ data # NoData
  /\ data[1] = SampleUnit
  /\ data[2] = -SampleUnit
  /\ data[Len(data)] = 0
  /\ output_queue = <<>>

----------------------------------------------------------------------------
(* Claims about shutdown (under SpecClose) *)

\* the processing thread has left its loop
Terminated == pt.pc \in {"exited", "panicked"}

\* C13: once close has set running to false the processing thread leaves its
\* loop, and it generates at most one chunk after close returned.
C13_CloseStopsThread ==
  /\ [](pt.chunks_after_close <= 1)
  /\ (~running) ~> Terminated

\* C13 witness: the thread exited after generating one chunk that close came
\* too late to prevent.
C13_Witness ==
  /\ ~running
  /\ pt.pc = "exited"
  /\ pt.chunks_after_close = 1

----------------------------------------------------------------------------
(* Claims about state updates (under SpecNotify) *)

\* C14 as claimed: chunk processing does not drop a pending update_reason
\* ("load", "play", "stop", "seek") before a state update carrying it was
\* handed to the host callback.
C14_ReasonDelivered ==
  [][(output' # NoOutput /\ update_reason # NoReason /\ ~dispatched)
       => update_reason' = update_reason]_vars

----------------------------------------------------------------------------
(* Claims about seek (under SpecSeek) *)

----------------------------------------------------------------------------
(* Claims about the tempo (under SpecTempo) *)

\* two rates are the same number
RateEq(a, b) == a[1] * b[2] = b[1] * a[2]

\* C16 as claimed: in every reachable state each deck's rate is
\* clamp(master_tempo / bpm, 0.5, 2.0) when the deck has a BPM above 0 and
\* 1.0 otherwise; and set_master_tempo with a value that is not in (0, 300]
\* leaves master_tempo and both rates unchanged.
C16_RateFollowsTempo ==
  /\ [](\A d \in Decks :
          IF deck[d].bpm.some /\ deck[d].bpm.v > 0
            THEN /\ 2 * master_tempo < deck[d].bpm.v => RateEq(deck[d].rate, <<1, 2>>)
                 /\ master_tempo > 2 * deck[d].bpm.v => RateEq(deck[d].rate, <<2, 1>>)
                 /\ (2 * master_tempo >= deck[d].bpm.v /\ master_tempo <= 2 * deck[d].bpm.v)
                      => RateEq(deck[d].rate, <<master_tempo, deck[d].bpm.v>>)
            ELSE RateEq(deck[d].rate, RateOne))
  /\ [][\A t \in TempoInputs :
          (SetMasterTempo(t) /\ ~(t # NaN /\ 0 < t /\ t <= MaxTempo)) =>
            /\ master_tempo' = master_tempo
            /\ \A d \in Decks : deck'[d].rate = deck[d].rate]_vars

----------------------------------------------------------------------------
(* Claims about deck indices (under SpecIndex) *)

\* what C17 says of a step that is the call `op_i` with a deck index other
\* than 1, `op_2` being the same call with index 2
AsDeckB(op_i, op_2) ==
  op_i => /\ op_2
          /\ deck'[1] = deck[1]
          /\ channel_config'.deck_a_cue = channel_config.deck_a_cue

\* C17: every per-deck operation called with a deck index other than 1
\* (0, or a value above 2) does to the engine exactly what the same call with
\* index 2 does, and leaves deck A and its cue switch as they were.
C17_OtherIndexIsDeckB ==
  [][\A i \in OtherIndices \ {2} :
       /\ AsDeckB(LoadTrack(i, 2 * MaxTrackFrames, "silence"),
                  LoadTrack(2, 2 * MaxTrackFrames, "silence"))
       /\ AsDeckB(Play(i), Play(2))
       /\ AsDeckB(Stop(i), Stop(2))
       /\ AsDeckB(Seek(i, <<1, 2>>), Seek(2, <<1, 2>>))
       /\ AsDeckB(SetDeckGain(i, 0), SetDeckGain(2, 0))
       /\ \A b \in BandArgs, en \in BOOLEAN :
            AsDeckB(SetEqCut(i, b, en), SetEqCut(2, b, en))
       /\ \A en \in BOOLEAN :
            AsDeckB(SetDeckCueEnabled(i, en), SetDeckCueEnabled(2, en))
       /\ AsDeckB(SetLoop(i, <<-1, 1>>, <<1, 2>>, TRUE),
                  SetLoop(2, <<-1, 1>>, <<1, 2>>, TRUE))
       /\ AsDeckB(SetBeatLoop(i, 1, MaxTrackFrames + 1),
                  SetBeatLoop(2, 1, MaxTrackFrames + 1))
       /\ AsDeckB(ClearLoop(i), ClearLoop(2))]_vars

\* C17 witness: deck A is loaded, playing and turned down, and deck B holds
\* what calls with other indices did to it: a track, a beat loop that moved
\* the position, a cut band, a gain of zero and its cue switch.
C17_Witness ==
  /\ deck[1].playing
  /\ deck[1].gain = 0
  /\ deck[1].cut_state = EqCutStateDefault
  /\ ~deck[1].loop_enabled
  /\ ~channel_config.deck_a_cue
  /\ deck[2].playing
  /\ deck[2].loop_enabled
  /\ deck[2].position = 1
  /\ deck[2].cut_state.mid
  /\ deck[2].gain = 0
  /\ channel_config.deck_b_cue

----------------------------------------------------------------------------
(* Claims about the equaliser (under SpecEq) *)

AllCuts(cut_state, b) == cut_state.low = b /\ cut_state.mid = b /\ cut_state.high = b

\* C18: in every chunk, the equaliser of a deck with no band cut leaves the
\* deck's buffer as the stretcher filled it, sample for sample, and the
\* equaliser of a deck with all three bands cut leaves 0 in all
\* FRAMES_PER_CHUNK x 2 samples, whatever its filters remember of earlier
\* chunks.
C18_EqExtremes ==
  [][output' # NoOutput =>
       \A d \in Decks :
         EqRuns(deck[d]) =>
           /\ AllCuts(deck[d].cut_state, FALSE) => output'.buffer[d] = output'.stretched[d]
           /\ AllCuts(deck[d].cut_state, TRUE) =>
                /\ Len(output'.buffer[d]) = FRAMES_PER_CHUNK * 2
                /\ \A i \in 1..(FRAMES_PER_CHUNK * 2) : output'.buffer[d][i] = 0]_vars

\* C18 witness: a deck whose filters remember audio of an earlier chunk
\* passed an overshooting buffer through with no band cut.
C18_Witness ==
  /\ output # NoOutput
  /\ \E d \in Decks :
       /\ AllCuts(deck[d].cut_state, FALSE)
       /\ deck[d].eq_memory # <<0, 0>>
       /\ output.stretched[d] = Buffer(2 * SampleUnit, SampleUnit)
       /\ output.buffer[d] = output.stretched[d]

\* C18 witness of silence: a deck whose filters remember audio of an earlier
\* chunk silenced an overshooting buffer with all three bands cut.
C18_WitnessSilence ==
  /\ output # NoOutput
  /\ \E d \in Decks :
       /\ AllCuts(deck[d].cut_state, TRUE)
       /\ deck[d].eq_memory # <<0, 0>>
       /\ output.stretched[d] = Buffer(2 * SampleUnit, SampleUnit)
       /\ output.buffer[d] = Silence

----------------------------------------------------------------------------
(* Claims about channel routing (under SpecRoute) *)

\* the channels the cue signal is written to in the chunk's configuration
CueWritten ==
  IF channel_config.deck_a_cue \/ channel_config.deck_b_cue
    THEN {channel_config.cue_channels[1], channel_config.cue_channels[2]} \ {Disabled}
    ELSE {}

\* the sample of channel c in frame f of the returned chunk
OutSample(f, c) == output.samples[f * output.output_channels + c + 1]

\* C19: in every frame of every returned chunk, whatever the channel
\* configuration: with both main slots mapped (to different channels the cue
\* does not take) they carry the clipped mix L and mix R; with exactly one
\* mapped it carries the clipped (L+R)/2 and every other channel the cue does
\* not write is silent; with neither mapped every channel the cue does not
\* write is silent.
C19_MainMapping ==
  (output # NoOutput /\ ~output.panic) =>
    LET main_l == channel_config.main_channels[1]
        main_r == channel_config.main_channels[2]
        channels == 0..(output.output_channels - 1)
    IN \A f \in 0..(FRAMES_PER_CHUNK - 1) :
         LET l == output.mix[2 * f + 1]
             r == output.mix[2 * f + 2]
             mono_main == ClampSample(TruncDiv(l + r, 2))
         IN /\ (main_l # Disabled /\ main_r # Disabled /\ main_l # main_r) =>
                 /\ main_l \notin CueWritten => OutSample(f, main_l) = ClampSample(l)
                 /\ main_r \notin CueWritten => OutSample(f, main_r) = ClampSample(r)
            /\ (main_l # Disabled /\ main_r = Disabled) =>
                 /\ main_l \notin CueWritten => OutSample(f, main_l) = mono_main
                 /\ \A c \in channels \ ({main_l} \cup CueWritten) : OutSample(f, c) = 0
            /\ (main_l = Disabled /\ main_r # Disabled) =>
                 /\ main_r \notin CueWritten => OutSample(f, main_r) = mono_main
                 /\ \A c \in channels \ ({main_r} \cup CueWritten) : OutSample(f, c) = 0
            /\ (main_l = Disabled /\ main_r = Disabled) =>
                 \A c \in channels \ CueWritten : OutSample(f, c) = 0

\* the decks whose cue is enabled
CueDecks ==
  {d \in Decks : IF d = 1 THEN channel_config.deck_a_cue ELSE channel_config.deck_b_cue}

\* the clamped mean, over the cue-enabled decks, of sample i of their
\* buffers after the equaliser
CueMean(i) ==
  LET sum == (IF 1 \in CueDecks THEN output.buffer[1][i] ELSE 0)
               + (IF 2 \in CueDecks THEN output.buffer[2][i] ELSE 0)
  IN ClampSample(TruncDiv(sum, Cardinality(CueDecks)))

C20_WitnessBoth ==
  /\ output # NoOutput
  /\ ~output.panic
  /\ channel_config.cue_channels = <<0, 1>>
  /\ CueDecks = Decks
  /\ output.buffer[1] = Buffer(2 * SampleUnit, SampleUnit)
  /\ output.buffer[2] = Silence
  /\ OutSample(0, 0) = SampleUnit /\ OutSample(0, 1) = TruncDiv(SampleUnit, 2)

\* C20 witness of the mono fold: a single mapped cue channel carries the
\* half sum of the clamped left and right means.
C20_WitnessMono ==
  /\ output # NoOutput
  /\ ~output.panic
  /\ channel_config.cue_channels = <<0, Disabled>>
  /\ CueDecks = {2}
  /\ output.buffer[2] = Buffer(SampleUnit, -SampleUnit)
  /\ output.buffer[1] = Buffer(2 * SampleUnit, SampleUnit)
  /\ OutSample(0, 0) = 0

----------------------------------------------------------------------------
(* Claims about the crossfader curve (under SpecXf) *)

----------------------------------------------------------------------------
(* Claims about the microphone (under SpecMix) *)

\* C22: a chunk processed while the microphone's ring buffer holds fewer
\* than FRAMES_PER_CHUNK x 2 samples leaves the ring buffer and the
\* microphone's peak as they were and every sample of the mix unchanged,
\* enabled or not; any other chunk takes exactly FRAMES_PER_CHUNK x 2
\* samples from the front of the ring buffer.
C22_MicStarvationSkipped ==
  [][output' # NoOutput =>
       IF Len(microphone.input_buffer) < BufferLen
         THEN /\ microphone' = microphone
              /\ output'.mix = output'.deck_mix
         ELSE /\ microphone'.input_buffer =
                   SubSeq(microphone.input_buffer, BufferLen + 1,
                          Len(microphone.input_buffer))
              /\ microphone'.enabled = microphone.enabled]_vars

\* C22 witness: the enabled microphone, its ring buffer short of a chunk and
\* its peak left by an earlier chunk, went through a chunk of sounding music
\* that was not ducked.
C22_Witness ==
  /\ output # NoOutput
  /\ microphone.enabled
  /\ microphone.talkover_ducking > 0
  /\ 0 < Len(microphone.input_buffer) /\ Len(microphone.input_buffer) < BufferLen
  /\ microphone.peak > 0
  /\ output.mix = output.deck_mix
  /\ output.mix # Silence

----------------------------------------------------------------------------
(* Claims about the loop region (under Spec and SpecBeatLoop) *)

\* C23: in every reachable state, a deck whose loop is enabled has
\* loop_end > loop_start.
C23_EnabledLoopNonEmpty ==
  \A d \in Decks : deck[d].loop_enabled => deck[d].loop_end > deck[d].loop_start

\* C23 witness: a track was loaded onto a deck whose enabled loop ends past
\* the end of the new track.
C23_Witness ==
  /\ last = "load"
  /\ \E d \in Decks :
       /\ deck[d].loop_enabled
       /\ deck[d].pcm # NoPcm
       /\ deck[d].loop_end > TotalFrames(deck[d].pcm)

\* C24: whenever set_beat_loop is given a region with loop_end > loop_start
\* on a deck with PCM, it leaves the loop enabled on that region and the
\* position in [loop_start, loop_end): a position inside the region stays
\* with the stretcher's reservoir, a position outside it becomes loop_start
\* with the reservoir cleared.
C24_BeatLoopPosition ==
  [][\A s \in BeatFrames, e \in BeatFrames :
       LET dk == deck[focus]
           ls == AsUsize(s, 1)
           le == BeatLoopEnd(e, TotalFrames(dk.pcm))
       IN (dk.pcm # NoPcm /\ le > ls /\ SetBeatLoop(focus, s, e)) =>
            /\ deck'[focus].loop_enabled
            /\ deck'[focus].loop_start = ls /\ deck'[focus].loop_end = le
            /\ ls <= deck'[focus].position /\ deck'[focus].position < le
            /\ IF ls <= dk.position /\ dk.position < le
                 THEN /\ deck'[focus].position = dk.position
                      /\ deck'[focus].reservoir = dk.reservoir
                 ELSE /\ deck'[focus].position = ls
                      /\ deck'[focus].reservoir = 0]_vars

\* C24 witness: a beat loop from frame 1 to the capped end of the track
\* moved the deck to frame 1, a position no seek and no chunk reaches.
C24_Witness ==
  /\ last = "op"
  /\ deck[focus].pcm # NoPcm
  /\ TotalFrames(deck[focus].pcm) = MaxTrackFrames
  /\ deck[focus].loop_enabled
  /\ deck[focus].loop_start = 1
  /\ deck[focus].loop_end = MaxTrackFrames
  /\ deck[focus].position = 1
  /\ deck[focus].reservoir = 0

----------------------------------------------------------------------------
(* Claims about the beat detector (under SpecBeat) *)

\* C25: every call of detect that got a tempo estimate leaves the two
\* folding loops, and every result has a BPM within [80, 170] that is a
\* whole number of hundredths.
C25_BpmFolded ==
  /\ [](bd.pc = "done" =>
          /\ FOLD_MIN <= bd.bpm /\ bd.bpm <= FOLD_MAX
          /\ bd.bpm % 8 = 0)
  /\ (bd.pc \in {"double", "halve"}) ~> (bd.pc \in {"done", "none"})

\* C26 as claimed: in every detection result the grid starts at a first beat
\* that is not negative, consecutive beats are exactly one beat interval
\* (60 / BPM) apart, every beat lies before the duration of the audio, and the
\* confidence lies within [0, 5.32].
C26_GridExact ==
  bd.pc = "done" =>
    /\ Len(bd.beats) >= 1
    /\ bd.beats[1] >= 0
    /\ \A k \in 1..(Len(bd.beats) - 1) :
         bd.beats[k + 1] - bd.beats[k] = BeatInterval(bd.bpm)
    /\ \A k \in 1..Len(bd.beats) : bd.beats[k] < bd.duration
    /\ 0 <= bd.confidence /\ bd.confidence <= 5320

\* C26: in every detection result the grid starts at a first beat that is not
\* negative, every beat is the f32 sum of the beat before it and the beat
\* interval (60 / BPM), so that consecutive beats are one interval apart to
\* within half a unit in the last place of the later beat, every beat lies
\* before the duration of the audio, and the confidence lies within [0, 5.32].
C26_BeatGridLaw ==
  bd.pc = "done" =>
    /\ Len(bd.beats) >= 1
    /\ bd.beats[1] >= 0
    /\ \A k \in 1..(Len(bd.beats) - 1) :
         /\ bd.beats[k + 1] = Fl(bd.beats[k] + BeatInterval(bd.bpm))
         /\ 2 * Abs(bd.beats[k + 1] - bd.beats[k] - BeatInterval(bd.bpm))
              <= Ulp(bd.beats[k + 1])
    /\ \A k \in 1..Len(bd.beats) : bd.beats[k] < bd.duration
    /\ 0 <= bd.confidence /\ bd.confidence <= 5320

\* a result whose grid starts after 0, runs to within one interval of the end
\* of the audio, has a step that is not the exact interval and matches the
\* detected beats in part
C26_Witness ==
  /\ bd.pc = "done"
  /\ Len(bd.beats) >= 3
  /\ bd.beats[1] > 0
  /\ bd.beats[Len(bd.beats)] + BeatInterval(bd.bpm) >= bd.duration
  /\ \E k \in 1..(Len(bd.beats) - 1) :
       bd.beats[k + 1] - bd.beats[k] # BeatInterval(bd.bpm)
  /\ 0 < bd.confidence /\ bd.confidence < 5320

----------------------------------------------------------------------------
(* Claims about the direction of an auto-crossfade (under SpecXf) *)

\* C29: a crossfade started with its target at the current fader position
\* has direction B to A; every chunk processed while it runs leaves deck A
\* playing and the fader at the target, and the chunk that completes it
\* leaves deck B stopped and deck A playing.
C29_EqualTargetIsBtoA ==
  [][/\ (crossfade'.active
           /\ crossfade'.target_position = crossfade'.start_position)
          => crossfade'.direction = "BtoA"
     /\ (last' = "chunk" /\ crossfade.active /\ crossfade.remaining_frames > 0
           /\ crossfade.target_position = crossfade.start_position)
          => /\ deck'[1].playing
             /\ crossfade'.position = crossfade.target_position
             /\ crossfade'.remaining_frames = 0
                  => (~crossfade'.active /\ ~deck'[2].playing)]_vars

\* C29 witness: a chunk has completed a crossfade that was started with the
\* fader already at its target, fully at deck B: deck A plays, deck B is
\* stopped.
C29_Witness ==
  /\ last = "chunk"
  /\ ~crossfade.active
  /\ crossfade.total_frames > FRAMES_PER_CHUNK
  /\ crossfade.remaining_frames = 0
  /\ crossfade.start_position = crossfade.target_position
  /\ crossfade.position = PosUnit
  /\ crossfade.target_position = PosUnit
  /\ deck[1].playing
  /\ ~deck[2].playing

----------------------------------------------------------------------------
(* Claims about TimeStretcher::process (under SpecStretch) *)

\* C30: every call of process returns; it has then fed frames_fed frames with
\* position + frames_fed at most total_frames, and its output is either
\* FRAMES_PER_CHUNK frames from the head of the reservoir in the order the
\* stretcher put them out, or, with the input used up (position + frames_fed
\* = total_frames), the whole reservoir in that order followed by silence;
\* what stays in the reservoir are the frames that follow.
C30_ProcessReturns ==
  /\ [](ts.pc = "done" =>
          LET total_frames == TotalFrames(ts.pcm)
              got == Cardinality({k \in 1..Len(ts.output) : ts.output[k] # 0})
          IN /\ ts.position + ts.frames_fed <= total_frames
             /\ Len(ts.output) = FRAMES_PER_CHUNK
             /\ \A k \in 1..Len(ts.output) :
                  ts.output[k] = IF k <= got THEN k ELSE 0
             /\ ts.reservoir = Frames(got + 1, ts.received)
             /\ \/ got = FRAMES_PER_CHUNK
                \/ /\ ts.position + ts.frames_fed = total_frames
                   /\ ts.reservoir = <<>>)
  /\ (ts.pc = "loop") ~> (ts.pc = "done")

\* C30 witness: a call that fed the rest of the track, got one frame out of
\* the stretcher in all and returned it followed by silence
C30_Witness ==
  /\ ts.pc = "done"
  /\ ts.frames_fed >= 2
  /\ ts.position + ts.frames_fed = TotalFrames(ts.pcm)
  /\ ts.received = 1
  /\ ts.output = <<1>> \o [k \in 1..(FRAMES_PER_CHUNK - 1) |-> 0]

\* C30 witness: a call that fed input, stopped at the target and left frames
\* in the reservoir
C30_WitnessFull ==
  /\ ts.pc = "done"
  /\ ts.frames_fed >= 1
  /\ ts.position + ts.frames_fed < TotalFrames(ts.pcm)
  /\ ts.output = Frames(1, FRAMES_PER_CHUNK)
  /\ Len(ts.reservoir) >= FRAMES_PER_CHUNK

----------------------------------------------------------------------------
(* Claims about the microphone ring buffer (under SpecMic) *)

\* C31: the ring buffer never holds more than (input_sample_rate / 10) x 2
\* samples; an input callback leaves in it the newest samples of the old
\* content followed by the delivered frames, each twice; a chunk removes
\* FRAMES_PER_CHUNK x 2 samples from the front or none; and
\* set_mic_enabled(false) empties it.
C31_RingBufferBound ==
  /\ [](Len(microphone.input_buffer) <= InputTenthSecondFrames * 2)
  /\ [][/\ \A x \in RingSamples, n \in InputFrames :
              InputCallback(x, n) =>
                LET all == microphone.input_buffer \o [i \in 1..(2 * n) |-> x]
                    kept == Len(microphone'.input_buffer)
                IN /\ kept = Min(Len(all), InputTenthSecondFrames * 2)
                   /\ \A i \in 1..kept :
                        microphone'.input_buffer[i] = all[Len(all) - kept + i]
        /\ ProcessChunkCtl =>
             \/ microphone'.input_buffer = microphone.input_buffer
             \/ microphone'.input_buffer =
                  SubSeq(microphone.input_buffer, BufferLen + 1,
                         Len(microphone.input_buffer))
        /\ SetMicEnabled(FALSE) => microphone'.input_buffer = <<>>]_vars

\* C31 witness: the ring buffer is full and holds samples of two callbacks,
\* the older ones in front
C31_Witness ==
  /\ Len(microphone.input_buffer) = InputTenthSecondFrames * 2
  /\ microphone.input_buffer[1] = SampleUnit
  /\ microphone.input_buffer[Len(microphone.input_buffer)] = 2 * SampleUnit

----------------------------------------------------------------------------
(* Claims about configure_device (under SpecDevice) *)

\* C33 as claimed: at every moment at most one output stream and at most one
\* input stream is alive.
C33_OneStreamEach ==
  dev.live_outputs <= 1 /\ dev.live_inputs <= 1

\* C39 as claimed: when configure_device has returned an error, the call has
\* changed neither the output stream nor the channel configuration nor the
\* queued samples.
C39_AllOrNothing ==
  dev.result = "err" => ~dev.changed

----------------------------------------------------------------------------
(* Claims about the beat grid's phase (under SpecBeat) *)

\* C34 as claimed: in every detection result the first grid beat has the
\* phase the voting picked: it differs from best_phase by a whole number of
\* beat intervals.
C34_GridHasVotedPhase ==
  bd.pc = "done" =>
    (bd.beats[1] - bd.best_phase) % BeatInterval(bd.bpm) = 0

----------------------------------------------------------------------------
(* The engine mutex: who holds it and where each thread stands.             *)
(* The threads are the processing thread (new, lines 475-521), the output    *)
(* and the input callback (lines 1074-1079 and 1117-1143) and the thread of  *)
(* the public operations. A place in LockPlaces is a call of state.lock()    *)
(* that has not returned; HeldPlace gives the place inside the block.        *)

Threads == {"process", "output", "input", "control"}

LockPlaces ==
  {"check", "read", "chunk", "push", "emit", "callback", "op",
   "cfg_state", "cfg_final", "close_state"}

HeldPlace ==
  [check |-> "check_held", read |-> "read_held", chunk |-> "chunk_held",
   push |-> "push_held", emit |-> "emit_held", callback |-> "callback_held",
   op |-> "op_held", cfg_state |-> "cfg_state_held",
   cfg_final |-> "cfg_final_held", close_state |-> "close_state_held"]

\* the places where the control thread pauses, drops or builds a stream
StreamPlaces ==
  {"cfg_pause_output", "cfg_drop_output", "cfg_build_output",
   "cfg_build_input", "cfg_stop_input", "cfg_drop_input",
   "close_stop_output", "close_drop_output", "close_stop_input",
   "close_drop_input"}

LkRest == <<engineState, bd, ts, dev, rec>>

LkMove(t, to) == [lk EXCEPT !.pc[t] = to]
LkUnlock(t, to) == [lk EXCEPT !.holder = "none", !.pc[t] = to]

\* parking_lot's Mutex::lock: returns once the mutex is free
LkLock(t) ==
  /\ lk.pc[t] \in LockPlaces
  /\ lk.holder = "none"
  /\ lk' = [lk EXCEPT !.holder = t, !.pc[t] = HeldPlace[lk.pc[t]]]
  /\ UNCHANGED LkRest

\* lines 476-483: read running, leave the block, break when not running
LkCheckRunning ==
  /\ lk.pc["process"] = "check_held"
  /\ lk' = LkUnlock("process", IF lk.running THEN "read" ELSE "exited")
  /\ UNCHANGED LkRest

\* lines 486-494: read the queue's size, leave the block, compare
LkReadQueue(below) ==
  /\ lk.pc["process"] = "read_held"
  /\ lk' = LkUnlock("process", IF below THEN "chunk" ELSE "timer")
  /\ UNCHANGED LkRest

\* lines 496-501: process_audio_chunk takes the guard's &mut, locks nothing
LkProcessChunk ==
  /\ lk.pc["process"] = "chunk_held"
  /\ lk' = LkUnlock("process", "push")
  /\ UNCHANGED LkRest

\* lines 504-507
LkPush ==
  /\ lk.pc["process"] = "push_held"
  /\ lk' = LkUnlock("process", "timer")
  /\ UNCHANGED LkRest

\* line 511: the 33 ms timer, read without the mutex
LkTimer(due) ==
  /\ lk.pc["process"] = "timer"
  /\ lk' = LkMove("process", IF due THEN "emit" ELSE "sleep")
  /\ UNCHANGED LkRest

\* lines 512-517: the update is built in the block and sent after it, by a
\* call that does not wait
LkEmit ==
  /\ lk.pc["process"] = "emit_held"
  /\ lk' = LkUnlock("process", "sleep")
  /\ UNCHANGED LkRest

\* line 520
LkSleep ==
  /\ lk.pc["process"] = "sleep"
  /\ lk' = LkMove("process", "check")
  /\ UNCHANGED LkRest

\* the device calls the output callback of a playing stream (line 1074)
LkOutputCallback ==
  /\ lk.pc["output"] = "idle"
  /\ lk.output_live
  /\ lk' = LkMove("output", "callback")
  /\ UNCHANGED LkRest

\* the device calls the input callback of a playing stream (line 1117): the
\* stored stream's or the one build_input_stream has just started
LkInputCallback(from) ==
  /\ lk.pc["input"] = "idle"
  /\ \/ from = "stored" /\ lk.input_live
     \/ from = "new" /\ lk.new_input_live
  /\ lk' = [LkMove("input", "callback") EXCEPT !.input_from = from]
  /\ UNCHANGED LkRest

\* lines 1079 and 1143: the callback's guard goes out of scope
LkCallbackReturn(t) ==
  /\ t \in {"output", "input"}
  /\ lk.pc[t] = "callback_held"
  /\ lk' = LkUnlock(t, "idle")
  /\ UNCHANGED LkRest

\* a public operation with one state.lock() (load_track, play, ..., lines
\* 644-1000)
LkOpBegin ==
  /\ lk.pc["control"] = "idle"
  /\ lk' = LkMove("control", "op")
  /\ UNCHANGED LkRest

LkOpReturn ==
  /\ lk.pc["control"] = "op_held"
  /\ lk' = LkUnlock("control", "idle")
  /\ UNCHANGED LkRest

\* configure_device with the block of lines 547-558 inside the block of
\* line 562: the old stream is paused and dropped with the mutex held
LkConfigureBegin_UnderMutex ==
  /\ lk.pc["control"] = "idle"
  /\ lk.holder = "none"
  /\ lk' = [LkMove("control", "cfg_pause_output") EXCEPT !.holder = "control"]
  /\ UNCHANGED LkRest

\* configure_device, lines 536-549: the device is found, the block of the
\* old output stream is entered
LkConfigureBegin ==
  /\ lk.pc["control"] = "idle"
  /\ lk' = LkMove("control", "cfg_pause_output")
  /\ UNCHANGED LkRest

\* line 552 (pause) and the first half of a drop: the stream is stopped, the
\* device starts no further callback of it
LkStopStream ==
  /\ \/ /\ lk.pc["control"] = "cfg_pause_output"
        /\ lk' = [LkMove("control", "cfg_drop_output") EXCEPT
                    !.output_live = FALSE]
     \/ /\ lk.pc["control"] = "close_stop_output"
        /\ lk' = [LkMove("control", "close_drop_output") EXCEPT
                    !.output_live = FALSE]
     \/ /\ lk.pc["control"] = "cfg_stop_input"
        /\ lk' = [LkMove("control", "cfg_drop_input") EXCEPT
                    !.input_live = FALSE]
     \/ /\ lk.pc["control"] = "close_stop_input"
        /\ lk' = [LkMove("control", "close_drop_input") EXCEPT
                    !.input_live = FALSE]
  /\ UNCHANGED LkRest

\* lines 557 and 1007: the drop of the output stream returns when no callback
\* of it is running
LkDropOutput ==
  /\ lk.pc["control"] \in {"cfg_drop_output", "close_drop_output"}
  /\ lk.pc["output"] = "idle"
  /\ lk' = LkMove("control",
                  IF lk.pc["control"] = "cfg_drop_output"
                  THEN "cfg_state" ELSE "close_stop_input")
  /\ UNCHANGED LkRest

\* lines 560-601: the channel configuration and the queue, in one block
LkConfigureState ==
  /\ lk.pc["control"] = "cfg_state_held"
  /\ lk' = LkUnlock("control", "cfg_build_output")
  /\ UNCHANGED LkRest

\* lines 604-610: build_output_stream plays the stream, `?` returns its error
LkBuildOutput(built) ==
  /\ lk.pc["control"] = "cfg_build_output"
  /\ lk' = IF built
           THEN [LkMove("control", "cfg_build_input") EXCEPT
                   !.output_live = TRUE]
           ELSE LkMove("control", "idle")
  /\ UNCHANGED LkRest

\* line 613: build_input_stream plays the new stream, the old one is stored
LkBuildInput(built) ==
  /\ lk.pc["control"] = "cfg_build_input"
  /\ lk' = [LkMove("control", "cfg_stop_input") EXCEPT
              !.new_input_live = built]
  /\ UNCHANGED LkRest

\* lines 621 and 1011: the drop of the stored input stream returns when no
\* callback of it is running; line 621 stores the new stream
LkDropInput ==
  /\ lk.pc["control"] \in {"cfg_drop_input", "close_drop_input"}
  /\ lk.pc["input"] = "idle" \/ lk.input_from = "new"
  /\ lk' = IF lk.pc["control"] = "cfg_drop_input"
           THEN [LkMove("control", "cfg_final") EXCEPT
                   !.input_live = lk.new_input_live,
                   !.new_input_live = FALSE,
                   !.input_from = "stored"]
           ELSE LkMove("control", "close_state")
  /\ UNCHANGED LkRest

\* lines 624-639
LkConfigureFinish ==
  /\ lk.pc["control"] = "cfg_final_held"
  /\ lk' = LkUnlock("control", "idle")
  /\ UNCHANGED LkRest

\* close, lines 1003-1006
LkCloseBegin ==
  /\ lk.pc["control"] = "idle"
  /\ lk' = LkMove("control", "close_stop_output")
  /\ UNCHANGED LkRest

\* lines 1014-1019
LkCloseState ==
  /\ lk.pc["control"] = "close_state_held"
  /\ lk' = [LkUnlock("control", "idle") EXCEPT !.running = FALSE]
  /\ UNCHANGED LkRest

\* the processing thread between two calls of lock()
LkProcessStep ==
  \/ LkCheckRunning
  \/ \E below \in BOOLEAN : LkReadQueue(below)
  \/ LkProcessChunk
  \/ LkPush
  \/ \E due \in BOOLEAN : LkTimer(due)
  \/ LkEmit
  \/ LkSleep

\* a public operation that has started, between two calls of lock()
LkControlStep ==
  \/ LkOpReturn
  \/ LkStopStream
  \/ LkDropOutput
  \/ LkConfigureState
  \/ \E built \in BOOLEAN : LkBuildOutput(built)
  \/ \E built \in BOOLEAN : LkBuildInput(built)
  \/ LkDropInput
  \/ LkConfigureFinish
  \/ LkCloseState

NextLock ==
  \/ \E t \in Threads : LkLock(t)
  \/ LkProcessStep
  \/ \E t \in {"output", "input"} : LkCallbackReturn(t)
  \/ LkControlStep
  \/ LkOutputCallback
  \/ \E from \in {"stored", "new"} : LkInputCallback(from)
  \/ LkOpBegin
  \/ LkConfigureBegin
  \/ LkCloseBegin

\* Each thread that has started goes on (WF); lock() is eventually fair: a thread that
\* waits while the mutex is released again and again gets it (SF).
SpecLock ==
  /\ InitQueue
  /\ [][NextLock]_vars
  /\ WF_vars(LkProcessStep)
  /\ WF_vars(LkControlStep)
  /\ \A t \in {"output", "input"} : WF_vars(LkCallbackReturn(t))
  /\ \A t \in Threads : SF_vars(LkLock(t))

----------------------------------------------------------------------------
(* Claims about the engine mutex (under SpecLock) *)

\* C35: no thread calls lock() on the engine mutex while it holds it, the
\* control thread holds it at no place where it pauses, drops or builds a
\* stream, and every thread that calls lock() eventually gets the mutex and
\* every stream operation of configure_device and close eventually returns.
C35_DeadlockFree ==
  /\ [](\A t \in Threads : ~(lk.pc[t] \in LockPlaces /\ lk.holder = t))
  /\ [](lk.pc["control"] \in StreamPlaces => lk.holder # "control")
  /\ \A t \in Threads : (lk.pc[t] \in LockPlaces) ~> (lk.holder = t)
  /\ (lk.pc["control"] \in StreamPlaces) ~> (lk.pc["control"] \notin StreamPlaces)

\* a callback holds the mutex while configure_device waits in the drop of the
\* old output stream
C35_Witness ==
  /\ lk.pc["control"] = "cfg_drop_output"
  /\ lk.holder = "output"
  /\ lk.pc["process"] \in LockPlaces

----------------------------------------------------------------------------
(* Claims about the decks' fields between operations *)

\* C36 as claimed (under SpecXf): in every state a deck that is playing has
\* PCM loaded.
C36_PlayingHasPcm ==
  \A i \in Decks : deck[i].playing => deck[i].pcm # NoPcm

\* C37 as claimed (under Spec): whenever a deck's loop is enabled, the deck
\* has a track and loop_start < loop_end <= total_frames of that track.
C37_LoopInsideTrack ==
  \A i \in Decks :
    deck[i].loop_enabled =>
      /\ deck[i].pcm # NoPcm
      /\ deck[i].loop_start < deck[i].loop_end
      /\ deck[i].loop_end <= TotalFrames(deck[i].pcm)

----------------------------------------------------------------------------
(* Claims about the end of a track (under SpecPlay) *)

\* C38 as claimed: when process returns with the position at the end of the
\* track (position + frames consumed >= total_frames, where the chunk stops
\* the deck and clears the stretcher, lines 1210-1213), the reservoir is
\* empty: every frame the stretcher put out has been copied into a chunk.
C38_NothingLeftAtEnd ==
  (ts.pc = "done" /\ ts.position + ts.frames_fed >= TotalFrames(ts.pcm))
    => ts.reservoir = <<>>

----------------------------------------------------------------------------
(* RecordingThread (recorder.rs).  rec.thread and rec.sender say whether the
   two Options are Some; rec.loop is the state of the spawned thread,
   rec.channel the messages sent and not yet received. *)

\* longest queue of unreceived messages
MaxUnreceived == 3
\* most blocks of audio sent to one recording
MaxBlocks == 3

RecordingFormats == {"Wav", "Ogg"}

RecRest == <<engineState, bd, ts, dev, lk>>

\* the receiver exists while the recording loop runs
ReceiverAlive == rec.loop = "running"

\* start_recording, lines 121-141; `creatable` says whether the file at
\* `path` can be created
StartRecording(format, creatable) ==
  /\ rec.pc = "idle"
  /\ IF rec.thread
       THEN rec' = [rec EXCEPT !.returned = "start_recording", !.result = "err"]
       ELSE rec' = [rec EXCEPT
                      !.sender = TRUE, !.thread = TRUE, !.loop = "running",
                      !.writer = "None", !.written = 0, !.sent = 0,
                      !.channel = <<[type |-> "Start", format |-> format,
                                     creatable |-> creatable]>>,
                      !.returned = "start_recording", !.result = "ok"]
  /\ UNCHANGED RecRest

\* send_audio_data, lines 143-147: a failed send is ignored
SendAudioData ==
  /\ rec.pc = "idle"
  /\ Len(rec.channel) < MaxUnreceived
  /\ rec.sent < MaxBlocks
  /\ rec' = [rec EXCEPT
               !.channel = IF rec.sender /\ ReceiverAlive
                             THEN Append(@, [type |-> "AudioData"]) ELSE @,
               !.sent = IF rec.sender THEN @ + 1 ELSE @,
               !.returned = "send_audio_data", !.result = "ok"]
  /\ UNCHANGED RecRest

\* stop, lines 149-154: the sender is taken; a send to a receiver that is
\* gone fails and `?` returns the error
RecStop ==
  /\ rec.pc = "idle"
  /\ IF rec.sender /\ ~ReceiverAlive
       THEN rec' = [rec EXCEPT !.sender = FALSE,
                               !.returned = "stop", !.result = "err"]
       ELSE rec' = [rec EXCEPT
                      !.sender = FALSE,
                      !.channel = IF rec.sender THEN Append(@, [type |-> "Stop"]) ELSE @,
                      !.pc = "join", !.returned = "none", !.result = "none"]
  /\ UNCHANGED RecRest

\* stop, lines 155-160: the handle is taken and join returns when the thread
\* has ended, with an error when it panicked
RecJoin ==
  /\ rec.pc = "join"
  /\ rec.thread => rec.loop # "running"
  /\ rec' = [rec EXCEPT
               !.thread = FALSE, !.pc = "idle", !.returned = "stop",
               !.result = IF rec.thread /\ rec.loop = "panicked"
                            THEN "err" ELSE "ok"]
  /\ UNCHANGED RecRest

\* recording_loop, lines 163-188: one message is received; unwrap panics
\* when the writer could not be created; the receiver goes with the thread
RecordingLoop ==
  /\ rec.loop = "running"
  /\ rec.channel # <<>>
  /\ LET message == Head(rec.channel)
     IN CASE message.type = "Start" ->
               IF message.creatable
                 THEN rec' = [rec EXCEPT !.channel = Tail(@),
                                         !.writer = message.format]
                 ELSE rec' = [rec EXCEPT !.channel = <<>>, !.loop = "panicked"]
          [] message.type = "AudioData" ->
               rec' = [rec EXCEPT !.channel = Tail(@),
                                  !.written = IF rec.writer # "None"
                                                THEN @ + 1 ELSE @]
          [] message.type = "Stop" ->
               rec' = [rec EXCEPT !.channel = <<>>, !.writer = "None",
                                  !.loop = "finished"]
  /\ UNCHANGED RecRest

NextRec ==
  \/ \E format \in RecordingFormats, creatable \in BOOLEAN :
       StartRecording(format, creatable)
  \/ SendAudioData
  \/ RecStop
  \/ RecJoin
  \/ RecordingLoop

SpecRec == InitQueue /\ [][NextRec]_vars

----------------------------------------------------------------------------
(* Claims about RecordingThread (under SpecRec) *)

\* C40 as claimed: when stop has returned, with Ok or with Err, neither a
\* thread handle nor a sender is stored.
C40_StopClears ==
  rec.returned = "stop" => ~rec.thread /\ ~rec.sender

====
